---- MODULE Spec2Model ----
(***************************************************************************)
(* Model of the Actify app: the score aggregation (calculateUserScores),   *)
(* the week arithmetic (getWeekStart, getWeekKey, isCurrentWeek), the      *)
(* Leaderboard, the handlers of the local-storage variant of the app       *)
(* (login, views, groups, camera capture, submission, vote, reaction,      *)
(* achievements), and the backend-integrated variant (loadUserData, the    *)
(* camera with its demo photos and the calls of the API under way).        *)
(*                                                                         *)
(* JavaScript numbers are IEEE 754 doubles: every sum, product and         *)
(* quotient is rounded to the nearest double, a tie going to the even      *)
(* mantissa.                                                               *)
(* A JavaScript Date is modelled in local civil time as a record           *)
(* [day, ms]: day counts days since 1970-01-01 and ms is the millisecond   *)
(* of that day; daylight-saving shifts are outside the model.              *)
(***************************************************************************)
EXTENDS Integers, Sequences, FiniteSets, Bags, TLC

VARIABLES
    submissionsToAnalyze,  \* argument of calculateUserScores
    userScores,            \* the object userScores built by the latest call
    scores,                \* array returned by the latest call on submissionsToAnalyze,
                           \* empty before the first call
    firstScores,           \* array returned by the first call on submissionsToAnalyze
    firstRef,              \* the reference of that array
    calls,                 \* number of calls made on submissionsToAnalyze
    now,                   \* the clock read by getWeekKey() in isCurrentWeek
    timestamp,             \* argument of isCurrentWeek
    inCurrentWeek,         \* value returned by isCurrentWeek(timestamp)
    weekChecked,           \* whether isCurrentWeek(timestamp) has returned
    renderedAt,            \* the clock when the ActivityFeed rendered last
    handled,               \* number of handler calls since the App was mounted
    submissions,           \* App state: the stored submissions, newest first
    user,                  \* App state: the id of the logged-in user, or NoUser
    logins,                \* number of logins so far
    currentView,           \* App state: the view the Navigation has chosen
    groups,                \* App state: the groups
    showCamera,            \* ActivityFeed state: the camera is open
    selectedActivity,      \* ActivityFeed state: the challenge being answered
    capturedPhotos,        \* CameraCapture state: the front and back photo
    lastOp,                \* the handler that ran last
    achievements,          \* App state: the achievements, earned or not
    weeklyScores,          \* Leaderboard: calculateUserScores(weeklySubmissions)
    allTimeScores,         \* Leaderboard: calculateUserScores(allTimeSubmissions)
    rendered,              \* whether the Leaderboard has rendered
    sortedUsers,           \* Leaderboard of App.js: the users with their streaks
    heap,                  \* the arrays and objects the Leaderboard works on, by reference
    isInitialized,         \* backend App state: initializeApp has finished
    isMobile,              \* backend App state: isMobileDevice() at the last resize
    notifications,         \* backend App state: the notifications of the user
    loads,                 \* the calls of loadUserData that have not returned
    timers,                \* the setTimeout(loadUserData, ...) not yet fired
    creates,               \* the calls of submissionAPI.create not yet returned
    requests,              \* the other calls of the API not yet returned
    serverSubmissions      \* the submissions the backend has stored

scoreVars == <<submissionsToAnalyze, userScores, scores, firstScores, firstRef, calls>>
weekVars == <<now, timestamp, inCurrentWeek, weekChecked, renderedAt, handled>>
appVars == <<submissions, user, logins, currentView, groups, showCamera,
             selectedActivity, capturedPhotos, lastOp, achievements>>
boardVars == <<weeklyScores, allTimeScores, rendered, sortedUsers, heap>>
netVars == <<isInitialized, isMobile, notifications, loads, timers, creates,
             requests, serverSubmissions>>

vars == <<submissionsToAnalyze, userScores, scores, firstScores, firstRef, calls,
          now, timestamp, inCurrentWeek, weekChecked, renderedAt, handled,
          submissions, user, logins, currentView, groups, showCamera,
          selectedActivity, capturedPhotos, lastOp, achievements,
          weeklyScores, allTimeScores, rendered, sortedUsers, heap,
          isInitialized, isMobile, notifications, loads, timers, creates,
          requests, serverSubmissions>>

(***************************************************************************)
(* Bounds of the model.                                                    *)
(***************************************************************************)
MaxSubs == 3       \* longest submission list analysed
MaxCallSubs == 2   \* longest submission list analysed repeatedly
MaxCalls == 2      \* most calls on one submission list
MaxSliceCalls == 1 \* most calls on other lists in between
FirstDay == 20080  \* first day of the clock's range: Monday 2024-12-23
NumDays == 49      \* length of the clock's range: up to Sunday 2025-02-09

\* Author ids: two demo users, and "9", an id generateId() can return
\* (Math.random() = 0.25 is "0.9" in base 36) that is an array index.
UserIds == {"demo-user-1", "demo-user-2", "9"}

UserNameOf(id) ==
    CASE id = "demo-user-1" -> "Alex Chen"
      [] id = "demo-user-2" -> "Sarah Johnson"
      [] id = "demo-user-3" -> "Mike Rodriguez"
      [] id = "demo-user-4" -> "Emma Wilson"
      [] OTHER -> "New User"

\* The ratings of the votes a submission of the inputs carries, in the order
\* of its votes array; every rating is one of the stars 1..5.  The averages
\* 13/3, 4/3 and 7/3 are no doubles: 10 + 40/3 and 70/3 are the same number
\* and different doubles.
RatingLists == {<<>>, <<5>>, <<3>>, <<4, 4, 5>>, <<1>>, <<1, 1, 2>>, <<1, 1, 5>>}

(***************************************************************************)
(* The App, ActivityFeed, CameraCapture and Leaderboard state at start.    *)
(***************************************************************************)
\* A property that is missing reads as undefined; as the key of userScores
\* undefined is the string "undefined".
Undefined == "undefined"
\* The timestamp of a submission that has none.
NoTimestamp == [year |-> 0, month |-> 0, date |-> 0, ms |-> 0]

\* user is null: nobody is logged in.
NoUser == "null"
\* selectedActivity is null.
NoActivity == [type |-> "null", activity |-> "null", groupId |-> "null"]
\* useState({ front: null, back: null })
NoPhotos == [front |-> "null", back |-> "null"]

\* DEFAULT_GROUPS.  The strings of the model are ASCII: an emoji of the
\* source is written as its code points.
DEFAULT_GROUPS ==
    <<[id |-> "fitness-crew",
       name |-> "Fitness Crew",
       description |-> "Daily fitness challenges for health enthusiasts",
       members |-> <<"demo-user">>,
       customActivity |-> "Post your workout selfie! U+1F4AA",
       createdBy |-> "demo-user",
       memberCount |-> 247,
       isPublic |-> TRUE],
      [id |-> "book-club",
       name |-> "Book Club",
       description |-> "Reading enthusiasts sharing daily progress",
       members |-> <<"demo-user">>,
       customActivity |-> "Share what you're reading today U+1F4D6",
       createdBy |-> "demo-user",
       memberCount |-> 156,
       isPublic |-> TRUE],
      [id |-> "mindful-moments",
       name |-> "Mindful Moments",
       description |-> "Daily mindfulness and meditation practice",
       members |-> <<>>,
       customActivity |-> "Share your moment of peace today U+1F9D8 U+200D U+2640 U+FE0F",
       createdBy |-> "system",
       memberCount |-> 89,
       isPublic |-> TRUE]>>

\* ACHIEVEMENTS of App.js: the ids.
ACHIEVEMENTS ==
    <<"first-post", "streak-3", "streak-7", "popular-post", "group-creator",
      "helpful-voter">>

\* ACHIEVEMENTS of the variants with the weekly leaderboard, the one with
\* local storage and the one with the backend: the ids.
WEEKLY_ACHIEVEMENTS ==
    <<"first-post", "streak-3", "streak-7", "popular-post", "group-creator",
      "helpful-voter", "weekly-winner", "challenge-creator">>

\* ACHIEVEMENTS.map(a => ({ ...a, earned: false, seen: false })); earnedAt
\* is not there yet.
NotEarned(ids) ==
    [i \in 1..Len(ids) |->
        [id |-> ids[i], earned |-> FALSE, earnedAt |-> NoTimestamp, seen |-> FALSE]]

\* The App before anybody has logged in, with nothing in localStorage.
AppStart ==
    /\ achievements = NotEarned(ACHIEVEMENTS)
    /\ submissions = <<>>
    /\ user = NoUser
    /\ logins = 0
    /\ currentView = "feed"
    /\ groups = DEFAULT_GROUPS
    /\ showCamera = FALSE
    /\ selectedActivity = NoActivity
    /\ capturedPhotos = NoPhotos
    /\ lastOp = "other"

\* The Leaderboard before its first render.
BoardStart ==
    /\ weeklyScores = <<>>
    /\ allTimeScores = <<>>
    /\ rendered = FALSE
    /\ sortedUsers = <<>>

\* The backend-integrated App before it is mounted: nothing is loaded and no
\* request is under way.
NetStart ==
    /\ isInitialized = FALSE
    /\ isMobile = FALSE
    /\ notifications = <<>>
    /\ loads = EmptyBag
    /\ timers = EmptyBag
    /\ creates = EmptyBag
    /\ requests = EmptyBag
    /\ serverSubmissions = <<>>

(***************************************************************************)
(* Natural numbers of any size: the sequence of the digits in base 2^14,   *)
(* lowest digit first, without a zero as highest digit; 0 is <<>>.         *)
(***************************************************************************)
Base == 16384
BaseBits == 14

Max(a, b) == IF a >= b THEN a ELSE b

RECURSIVE BigTrim(_)
BigTrim(a) ==
    IF a = <<>> \/ a[Len(a)] # 0 THEN a ELSE BigTrim(SubSeq(a, 1, Len(a) - 1))

RECURSIVE BigFromInt(_)
BigFromInt(n) == IF n = 0 THEN <<>> ELSE <<n % Base>> \o BigFromInt(n \div Base)

Limb(a, i) == IF i >= 1 /\ i <= Len(a) THEN a[i] ELSE 0

BigAdd(a, b) ==
    LET n == Max(Len(a), Len(b))
        RECURSIVE Go(_, _)
        Go(i, carry) ==
            IF i > n THEN (IF carry = 0 THEN <<>> ELSE <<carry>>)
            ELSE LET s == Limb(a, i) + Limb(b, i) + carry
                 IN  <<s % Base>> \o Go(i + 1, s \div Base)
    IN  Go(1, 0)

\* a - b for a >= b.
BigSub(a, b) ==
    LET RECURSIVE Go(_, _)
        Go(i, borrow) ==
            IF i > Len(a) THEN <<>>
            ELSE LET s == a[i] - Limb(b, i) - borrow
                 IN  IF s < 0 THEN <<s + Base>> \o Go(i + 1, 1)
                     ELSE <<s>> \o Go(i + 1, 0)
    IN  BigTrim(Go(1, 0))

\* -1, 0 or 1 as a < b, a = b or a > b.
BigCmp(a, b) ==
    LET RECURSIVE Go(_)
        Go(i) ==
            IF i = 0 THEN 0
            ELSE IF a[i] # b[i] THEN (IF a[i] < b[i] THEN -1 ELSE 1)
            ELSE Go(i - 1)
    IN  IF Len(a) # Len(b) THEN (IF Len(a) < Len(b) THEN -1 ELSE 1) ELSE Go(Len(a))

\* a * b for factors of at most four digits each.
BigMul(a, b) ==
    LET RECURSIVE Column(_, _)
        Column(k, i) ==
            IF i > Len(a) \/ i > k THEN 0
            ELSE a[i] * Limb(b, k + 1 - i) + Column(k, i + 1)
        RECURSIVE Go(_, _)
        Go(k, carry) ==
            IF k > Len(a) + Len(b) THEN <<>>
            ELSE LET s == carry + Column(k, 1)
                 IN  <<s % Base>> \o Go(k + 1, s \div Base)
    IN  BigTrim(Go(1, 0))

\* a * c for 0 <= c < 2^16.
BigMulSmall(a, c) ==
    LET RECURSIVE Go(_, _)
        Go(i, carry) ==
            IF i > Len(a) THEN (IF carry = 0 THEN <<>> ELSE BigFromInt(carry))
            ELSE LET s == a[i] * c + carry
                 IN  <<s % Base>> \o Go(i + 1, s \div Base)
    IN  BigTrim(Go(1, 0))

\* <<quotient, remainder>> of a by d for 1 <= d < 2^16.
BigDivModSmall(a, d) ==
    LET RECURSIVE Go(_, _)
        \* the digits i..1 of the quotient, lowest first, and the remainder
        Go(i, r) ==
            IF i = 0 THEN <<<<>>, r>>
            ELSE LET cur == r * Base + a[i]
                     rest == Go(i - 1, cur % d)
                 IN  <<Append(rest[1], cur \div d), rest[2]>>
        res == Go(Len(a), 0)
    IN  <<BigTrim(res[1]), res[2]>>

\* a * 2^k.
RECURSIVE Zeros(_)
Zeros(n) == IF n = 0 THEN <<>> ELSE <<0>> \o Zeros(n - 1)
BigShl(a, k) ==
    IF a = <<>> THEN <<>>
    ELSE Zeros(k \div BaseBits) \o BigMulSmall(a, 2 ^ (k % BaseBits))

\* floor(a / 2^k).
BigShr(a, k) ==
    LET q == k \div BaseBits
    IN  IF q >= Len(a) THEN <<>>
        ELSE BigDivModSmall(SubSeq(a, q + 1, Len(a)), 2 ^ (k % BaseBits))[1]

\* The number of binary digits of n, for 0 <= n < 2^14.
RECURSIVE BitsOf(_)
BitsOf(n) == IF n = 0 THEN 0 ELSE 1 + BitsOf(n \div 2)
BitLen(a) == IF a = <<>> THEN 0 ELSE BaseBits * (Len(a) - 1) + BitsOf(a[Len(a)])

\* The number of zeros at the low end of the binary digits of a # 0.
RECURSIVE LowZerosOf(_)
LowZerosOf(n) == IF n % 2 = 1 THEN 0 ELSE 1 + LowZerosOf(n \div 2)
RECURSIVE LowZeros(_, _)
LowZeros(a, i) == IF a[i] = 0 THEN BaseBits + LowZeros(a, i + 1) ELSE LowZerosOf(a[i])

(***************************************************************************)
(* JavaScript numbers: IEEE 754 doubles.  A finite number that is not      *)
(* negative is [m, e], the number m * 2^e with m odd and below 2^53, or    *)
(* m = 0 and e = 0.  The numbers of the model stay far from the overflow   *)
(* and the underflow of the exponent, which are not modelled.              *)
(***************************************************************************)
Precision == 53

\* The number m * 2^e for m of at most 53 binary digits.
Normal(m, e) ==
    IF m = <<>> THEN [m |-> <<>>, e |-> 0]
    ELSE LET z == LowZeros(m, 1) IN [m |-> BigShr(m, z), e |-> e + z]

\* The double nearest to (n / d) * 2^e, a tie going to the even mantissa,
\* for a divisor 1 <= d < 2^14.
RoundToDouble(n, d, e) ==
    IF n = <<>> THEN Normal(<<>>, 0)
    ELSE IF d = 1 /\ BitLen(n) <= Precision THEN Normal(n, e)
    ELSE LET s == IF d = 1 THEN 0
                  ELSE Max(0, Precision + 2 + BitsOf(d) - BitLen(n))
             \* the quotient q with remainder r, of which the binary digits
             \* above the lowest drop ones are kept
             Rounded(q, r, drop, kept) ==
                 LET low == BigSub(q, BigShl(kept, drop))
                     half == BigShl(<<1>>, drop - 1)
                     c == BigCmp(low, half)
                     up == c > 0 \/ (c = 0 /\ (r # 0 \/ kept[1] % 2 = 1))
                 IN  Normal(IF up THEN BigAdd(kept, <<1>>) ELSE kept, e - s + drop)
             Kept(q, r, drop) == Rounded(q, r, drop, BigShr(q, drop))
             Quotient(qr) == Kept(qr[1], qr[2], BitLen(qr[1]) - Precision)
         IN  Quotient(BigDivModSmall(BigShl(n, s), d))

\* The number n, an integer from 0 to 2^31 - 1.
Num(n) == Normal(BigFromInt(n), 0)

\* a + b
NumAdd(a, b) ==
    LET e == IF a.e <= b.e THEN a.e ELSE b.e
    IN  RoundToDouble(BigAdd(BigShl(a.m, a.e - e), BigShl(b.m, b.e - e)), 1, e)

\* a * b
NumMul(a, b) == RoundToDouble(BigMul(a.m, b.m), 1, a.e + b.e)

\* a / b for b an integer from 1 to 2^14 - 1 (the divisors of the program are
\* the length of a list of votes and a count of submissions).
NumDiv(a, b) == RoundToDouble(a.m, b.m[1], a.e - b.e)

\* The sign of a - b: -1, 0 or 1.
NumCmp(a, b) ==
    LET e == IF a.e <= b.e THEN a.e ELSE b.e
    IN  BigCmp(BigShl(a.m, a.e - e), BigShl(b.m, b.e - e))

\* a <= b
NumLeq(a, b) == NumCmp(a, b) <= 0

(***************************************************************************)
(* A JavaScript object with string keys: the sequence of its properties    *)
(* [key, value] in creation order.                                         *)
(***************************************************************************)
HasKey(obj, k) == \E i \in 1..Len(obj) : obj[i].key = k
IndexOfKey(obj, k) == CHOOSE i \in 1..Len(obj) : obj[i].key = k
Get(obj, k) == obj[IndexOfKey(obj, k)].value
Put(obj, k, v) ==
    IF HasKey(obj, k)
    THEN [obj EXCEPT ![IndexOfKey(obj, k)] = [key |-> k, value |-> v]]
    ELSE Append(obj, [key |-> k, value |-> v])

\* The integer a key denotes when it is a canonical array index, else -1.
ArrayIndex(k) == IF k = "9" THEN 9 ELSE -1

RECURSIVE AscendingIndexKeys(_)
AscendingIndexKeys(props) ==
    IF props = <<>> THEN <<>>
    ELSE LET m == CHOOSE i \in 1..Len(props) :
                    \A j \in 1..Len(props) :
                        ArrayIndex(props[i].key) <= ArrayIndex(props[j].key)
         IN  <<props[m]>> \o
             AscendingIndexKeys(SubSeq(props, 1, m - 1) \o SubSeq(props, m + 1, Len(props)))

\* Object.values: array-index keys in ascending numeric order first, then
\* the other keys in creation order.
ObjectValues(obj) ==
    LET IsIdx(p) == ArrayIndex(p.key) >= 0
        NotIdx(p) == ArrayIndex(p.key) < 0
        ordered == AscendingIndexKeys(SelectSeq(obj, IsIdx)) \o SelectSeq(obj, NotIdx)
    IN  [i \in 1..Len(ordered) |-> ordered[i].value]

(***************************************************************************)
(* Arrays and objects by reference.  heap.arrays[r] is the array with      *)
(* reference r: the references of its elements, in order; heap.objects[r]  *)
(* is the object with reference r.  An array or object literal and the     *)
(* array methods filter, slice and Object.values make a new array or       *)
(* object; sort orders the array it is called on; an assignment of an      *)
(* array copies the reference.                                             *)
(***************************************************************************)
\* Nothing is allocated.
EmptyHeap == [arrays |-> <<>>, objects |-> <<>>]

\* The array a component is passed as its prop, or a function as its
\* argument, is the first one allocated.
PropRef == 1

\* The heap that holds the array S of objects and nothing else.
HeapOf(S) == [arrays |-> <<[i \in 1..Len(S) |-> i]>>, objects |-> S]

\* The elements of the array with reference ref, as they are now.
Deref(h, ref) == [i \in 1..Len(h.arrays[ref]) |-> h.objects[h.arrays[ref][i]]]

\* A new array with the elements items; its reference is the next one.
NewArray(h, items) ==
    [heap |-> [h EXCEPT !.arrays = Append(@, items)], ref |-> Len(h.arrays) + 1]

\* New objects with the given fields, and the references they get.
NewObjects(h, fields) ==
    [heap |-> [h EXCEPT !.objects = @ \o fields],
     refs |-> [i \in 1..Len(fields) |-> Len(h.objects) + i]]

(***************************************************************************)
(* calculateUserScores.                                                    *)
(***************************************************************************)
\* Mutant: userScores hoisted out of the function and shared between calls.
SharedUserScores == userScores

\* Mutant: the new entry already counts the submission that is counted next.
InitialScoreCounted(submission) ==
    [userId |-> submission.userId,
     userName |-> submission.userName,
     totalPoints |-> Num(0),
     submissions |-> 1,
     averageRating |-> Num(0),
     streak |-> 0,
     reactions |-> 0,
     votes |-> 0]

\* The entry created for a user met for the first time.
InitialScore(submission) ==
    [userId |-> submission.userId,
     userName |-> submission.userName,
     totalPoints |-> Num(0),
     submissions |-> 0,
     averageRating |-> Num(0),
     streak |-> 0,
     reactions |-> 0,
     votes |-> 0]

\* Mutant: userScores starts with an entry for the user who looks at the
\* Leaderboard.
UserScoresOfViewer ==
    <<[key |-> user,
       value |-> InitialScore([userId |-> user, userName |-> UserNameOf(user)])]>>

\* const userScores = {};
NewUserScores == <<>>

\* submission.votes.reduce((sum, vote) => sum + vote.rating, 0)
RECURSIVE SumRatings(_, _)
SumRatings(votes, i) ==
    IF i > Len(votes) THEN 0 ELSE votes[i].rating + SumRatings(votes, i + 1)

\* const avgRating = (sum of the ratings) / submission.votes.length
AvgRating(votes) == NumDiv(Num(SumRatings(votes, 1)), Num(Len(votes)))

\* Mutant: the points are assigned instead of added.
AssignPoints(totalPoints, avgRating) == NumMul(avgRating, Num(10))

\* userScore.totalPoints += avgRating * 10
AddPoints(totalPoints, avgRating) == NumAdd(totalPoints, NumMul(avgRating, Num(10)))

\* Mutant: the new average is the midpoint of the old average and the new rating.
MidpointMean(averageRating, count, avgRating) ==
    NumDiv(NumAdd(averageRating, avgRating), Num(2))

\* ((userScore.averageRating * (userScore.submissions - 1)) + avgRating) / userScore.submissions
RunningMean(averageRating, count, avgRating) ==
    NumDiv(NumAdd(NumMul(averageRating, Num(count - 1)), avgRating), Num(count))

\* Mutant: a submission without votes is passed over.
ScoreRatedOnly(obj, submission) ==
    IF Len(submission.votes) = 0 THEN obj
    ELSE LET k == submission.userId
             old == IF HasKey(obj, k) THEN Get(obj, k) ELSE InitialScore(submission)
             avgRating == AvgRating(submission.votes)
         IN  Put(obj, k, [old EXCEPT
                            !.submissions = @ + 1,
                            !.reactions = @ + Len(submission.reactions),
                            !.votes = @ + Len(submission.votes),
                            !.totalPoints = AddPoints(@, avgRating),
                            !.averageRating = RunningMean(@, old.submissions + 1, avgRating)])

\* The body of the forEach callback: the object userScores after one submission.
ScoreSubmission(obj, submission) ==
    LET k == submission.userId
        created == IF HasKey(obj, k) THEN obj ELSE Put(obj, k, InitialScore(submission))
        old == Get(created, k)
        counted == [old EXCEPT !.submissions = @ + 1,
                               !.reactions = @ + Len(submission.reactions),
                               !.votes = @ + Len(submission.votes)]
        rated == IF Len(submission.votes) > 0
                 THEN LET avgRating == AvgRating(submission.votes)
                      IN  [counted EXCEPT
                             !.totalPoints = AddPoints(@, avgRating),
                             !.averageRating = RunningMean(@, counted.submissions, avgRating)]
                 ELSE counted
    IN  Put(created, k, rated)

\* submissionsToAnalyze.forEach(...), from submission i on.  Each step is
\* bound by a quantifier, so that it is computed once.
RECURSIVE ForEachSubmission(_, _, _)
ForEachSubmission(obj, S, i) ==
    IF i > Len(S) THEN obj
    ELSE CHOOSE all \in {ForEachSubmission(next, S, i + 1) :
                             next \in {ScoreSubmission(obj, S[i])}} : TRUE

\* Mutant: the sign of the comparator (a, b) => a.totalPoints - b.totalPoints.
CompareScoresAscending(a, b) == NumCmp(a.totalPoints, b.totalPoints)

\* The sign of the comparator (a, b) => b.totalPoints - a.totalPoints; the
\* difference of two doubles is 0 only when they are equal.
CompareScores(a, b) == NumCmp(b.totalPoints, a.totalPoints)

\* Array.prototype.sort with CompareScores; the sort is stable: an element
\* moves in front of exactly the elements the comparator puts after it.
\* Each step of SortFrom is bound by a quantifier, so that it is computed
\* once.
RECURSIVE InsertScore(_, _)
InsertScore(sorted, x) ==
    IF sorted = <<>> THEN <<x>>
    ELSE LET last == sorted[Len(sorted)]
         IN  IF CompareScores(last, x) > 0
             THEN Append(InsertScore(SubSeq(sorted, 1, Len(sorted) - 1), x), last)
             ELSE Append(sorted, x)

RECURSIVE SortFrom(_, _, _)
SortFrom(sorted, arr, i) ==
    IF i > Len(arr) THEN sorted
    ELSE CHOOSE all \in {SortFrom(next, arr, i + 1) :
                             next \in {InsertScore(sorted, arr[i])}} : TRUE

\* Mutant: the array is returned unsorted.
Unsorted(arr) == arr

SortScores(arr) == SortFrom(<<>>, arr, 1)

\* The object userScores when calculateUserScores(S) reaches its return.
UserScoresAfter(S) == ForEachSubmission(NewUserScores, S, 1)

\* Mutant: Object.values(userScores) is not sorted but the argument is, by
\* the number of its votes.
SortedArgument(h, ref, argument) ==
    LET arr == h.arrays[argument]
        Votes(r) == Len(h.objects[r].votes)
        Before(i, j) == Votes(arr[i]) > Votes(arr[j]) \/ (Votes(arr[i]) = Votes(arr[j]) /\ i < j)
        Place(i) == 1 + Cardinality({j \in 1..Len(arr) : Before(j, i)})
    IN  [h EXCEPT !.arrays[argument] =
                     [k \in 1..Len(arr) |-> arr[CHOOSE i \in 1..Len(arr) : Place(i) = k]]]

\* .sort((a, b) => b.totalPoints - a.totalPoints) called on the array with
\* reference ref: the array itself is ordered; argument is the array
\* calculateUserScores was passed.
SortedInPlace(h, ref, argument) ==
    LET arr == h.arrays[ref]
        sorted == SortScores([i \in 1..Len(arr) |->
                                 [ref |-> arr[i], totalPoints |-> h.objects[arr[i]].totalPoints]])
    IN  [h EXCEPT !.arrays[ref] = [i \in 1..Len(sorted) |-> sorted[i].ref]]

\* calculateUserScores called with the array with reference ref: forEach
\* reads its elements; the entries of userScores are new objects,
\* Object.values(userScores) is a new array of them, and that array is sorted
\* and returned.  The result is the heap after the call and the reference
\* returned.
calculateUserScoresAt(h, ref) ==
    LET Sorted(values) == [heap |-> SortedInPlace(values.heap, values.ref, ref),
                           ref |-> values.ref]
        Values(entries) == Sorted(NewArray(entries.heap, entries.refs))
    IN  Values(NewObjects(h, ObjectValues(UserScoresAfter(Deref(h, ref)))))

\* calculateUserScores(S) for an array S that nothing else refers to: the
\* elements of the array returned.
calculateUserScores(S) ==
    LET Elements(returned) == Deref(returned.heap, returned.ref)
    IN  Elements(calculateUserScoresAt(HeapOf(S), PropRef))

(***************************************************************************)
(* The inputs of calculateUserScores.                                      *)
(***************************************************************************)
\* The votes array with the given ratings; voters are named as in
\* generateDemoSubmissions.
VoterIds == <<"voter-0", "voter-1", "voter-2", "voter-3">>
VotesWith(ratings) ==
    [i \in 1..Len(ratings) |-> [userId |-> VoterIds[i], rating |-> ratings[i]]]

InputSubmissions ==
    {[userId |-> u, userName |-> UserNameOf(u), votes |-> VotesWith(r), reactions |-> <<>>] :
        u \in UserIds, r \in RatingLists}

InputLists == UNION {[1..n -> InputSubmissions] : n \in 0..MaxSubs}
CallLists == UNION {[1..n -> InputSubmissions] : n \in 0..MaxCallSubs}

\* The clock and the week filter stand still while scores are computed.
WeekIdle == [day |-> 0, ms |-> 0]

ScoresStart ==
    /\ heap = HeapOf(submissionsToAnalyze)
    /\ userScores = <<>>
    /\ scores = <<>>
    /\ firstScores = <<>>
    /\ firstRef = 0
    /\ calls = 0
    /\ now = WeekIdle
    /\ timestamp = [year |-> 1970, month |-> 1, date |-> 1, ms |-> 0]
    /\ inCurrentWeek = FALSE
    /\ weekChecked = FALSE
    /\ renderedAt = now
    /\ handled = 0
    /\ AppStart
    /\ BoardStart
    /\ NetStart

InitScores == submissionsToAnalyze \in InputLists /\ ScoresStart
InitCalls == submissionsToAnalyze \in CallLists /\ ScoresStart

\* The call calculateUserScores(submissionsToAnalyze): the heap after it,
\* the object userScores it built and the array it returned.
Called(returned) ==
    /\ heap' = returned.heap
    /\ userScores' = UserScoresAfter(Deref(heap, PropRef))
    /\ scores' = Deref(returned.heap, returned.ref)
    /\ submissionsToAnalyze' = Deref(returned.heap, PropRef)

\* The first call calculateUserScores(submissionsToAnalyze).
Calculate ==
    /\ calls = 0
    /\ \E returned \in {calculateUserScoresAt(heap, PropRef)} :
          /\ Called(returned)
          /\ firstRef' = returned.ref
    /\ firstScores' = scores'
    /\ calls' = 1
    /\ UNCHANGED <<weekVars, appVars, weeklyScores, allTimeScores, rendered, sortedUsers,
                   netVars>>

\* A later call on the same list, as every render of the Leaderboard makes.
CalculateAgain ==
    /\ calls > 0
    /\ calls < MaxCalls
    /\ \E returned \in {calculateUserScoresAt(heap, PropRef)} : Called(returned)
    /\ calls' = calls + 1
    /\ UNCHANGED <<firstScores, firstRef, weekVars, appVars, weeklyScores, allTimeScores,
                   rendered, sortedUsers, netVars>>

\* The calls made so far on other arrays than submissionsToAnalyze: each
\* left its argument and the array it returned.
SliceCalls == (Len(heap.arrays) - 1 - calls) \div 2

\* A call of calculateUserScores on another array, as the Leaderboard makes
\* for the weekly submissions: a new array with none, some or all of the
\* elements, here submissionsToAnalyze.slice(i - 1, j).
CalculateSlice ==
    /\ SliceCalls < MaxSliceCalls
    /\ \E i \in 1..(Len(submissionsToAnalyze) + 1), j \in 0..Len(submissionsToAnalyze) :
          /\ j >= i - 1
          /\ \E slice \in {NewArray(heap, SubSeq(heap.arrays[PropRef], i, j))} :
             \E returned \in {calculateUserScoresAt(slice.heap, slice.ref)} :
                /\ heap' = returned.heap
                /\ userScores' = UserScoresAfter(Deref(slice.heap, slice.ref))
                /\ submissionsToAnalyze' = Deref(returned.heap, PropRef)
    /\ UNCHANGED <<scores, firstScores, firstRef, calls, weekVars, appVars, weeklyScores,
                   allTimeScores, rendered, sortedUsers, netVars>>

NextScores == Calculate
NextCalls == Calculate \/ CalculateAgain \/ CalculateSlice

SpecScores == InitScores /\ [][NextScores]_vars
SpecCalls == InitCalls /\ [][NextCalls]_vars

(***************************************************************************)
(* Dates.  A Date is [day, ms] in local civil time; the getters and        *)
(* setters of Date follow the proleptic Gregorian calendar.                *)
(***************************************************************************)
MsPerDay == 24 * 60 * 60 * 1000

\* The civil date [year, month, date] of a day number (month 1..12).
CivilFromDays(z0) ==
    LET FromMonth(era, yoe, doy, mp) ==
            LET m == IF mp < 10 THEN mp + 3 ELSE mp - 9
            IN  [year |-> yoe + era * 400 + (IF m <= 2 THEN 1 ELSE 0),
                 month |-> m,
                 date |-> doy - (153 * mp + 2) \div 5 + 1]
        FromDayOfYear(era, yoe, doy) == FromMonth(era, yoe, doy, (5 * doy + 2) \div 153)
        FromYearOfEra(era, doe, yoe) ==
            FromDayOfYear(era, yoe, doe - (365 * yoe + yoe \div 4 - yoe \div 100))
        FromDayOfEra(era, doe) ==
            FromYearOfEra(era, doe,
                          (doe - doe \div 1460 + doe \div 36524 - doe \div 146096) \div 365)
        FromEra(z, era) == FromDayOfEra(era, z - era * 146097)
    IN  FromEra(z0 + 719468, (z0 + 719468) \div 146097)

\* The day number of a civil date.
DaysFromCivil(year, month, date) ==
    LET y == IF month <= 2 THEN year - 1 ELSE year
        era == y \div 400
        yoe == y - era * 400
        mp == IF month > 2 THEN month - 3 ELSE month + 9
        doy == (153 * mp + 2) \div 5 + date - 1
        doe == yoe * 365 + yoe \div 4 - yoe \div 100 + doy
    IN  era * 146097 + doe - 719468

\* Date.prototype.getDay: 0 is Sunday; 1970-01-01 was a Thursday.
getDay(d) == (d.day + 4) % 7
\* Date.prototype.getDate: the day of the month.
getDate(d) == CivilFromDays(d.day).date
\* Date.prototype.getFullYear.
getFullYear(d) == CivilFromDays(d.day).year
\* Date.prototype.setDate: the day of the month becomes n, days outside the
\* month rolling into the neighbouring months; the time of day is kept.
setDate(d, n) == [d EXCEPT !.day = d.day - getDate(d) + n]
\* Date.prototype.setHours(h, m, s, ms) within the same day.
setHours(d, h, m, sec, ms) == [d EXCEPT !.ms = ((h * 60 + m) * 60 + sec) * 1000 + ms]

\* Date.prototype.toISOString: the fields of the timestamp string.
toISOString(d) ==
    LET c == CivilFromDays(d.day)
    IN  [year |-> c.year, month |-> c.month, date |-> c.date, ms |-> d.ms]
\* new Date(timestamp): the Date a timestamp string denotes.
NewDate(ts) == [day |-> DaysFromCivil(ts.year, ts.month, ts.date), ms |-> ts.ms]

\* Math.ceil(n / 7)
CeilDiv7(n) == -((-n) \div 7)

\* Mutant: Sunday is not moved back to the Monday six days earlier.
getWeekStartSundayForward(date) ==
    LET day == getDay(date)
        diff == getDate(date) - day + 1
    IN  setHours(setDate(date, diff), 0, 0, 0, 0)

getWeekStart(date) ==
    LET day == getDay(date)
        diff == getDate(date) - day + (IF day = 0 THEN -6 ELSE 1)
        monday == setDate(date, diff)
    IN  setHours(monday, 0, 0, 0, 0)

\* Mutant: the hours of the last day are not set.
getWeekEndAtMidnight(date) ==
    LET weekStart == getWeekStart(date)
    IN  setDate(weekStart, getDate(weekStart) + 6)

getWeekEnd(date) ==
    LET weekStart == getWeekStart(date)
        weekEnd == setDate(weekStart, getDate(weekStart) + 6)
    IN  setHours(weekEnd, 23, 59, 59, 999)

\* The template string `${year}-W${n}`.
getWeekKey(date) ==
    LET Key(weekStart) ==
            ToString(getFullYear(weekStart)) \o "-W"
                \o ToString(CeilDiv7(getDate(weekStart) - getDay(weekStart) + 1))
    IN  Key(getWeekStart(date))

\* isCurrentWeek reads the clock for the current week.
isCurrentWeek(ts) == getWeekKey(NewDate(ts)) = getWeekKey(now)

\* The instants of the clock's range: the first, the noon and the last
\* millisecond of each day.
Instants ==
    {[day |-> d, ms |-> t] :
        d \in FirstDay..(FirstDay + NumDays - 1), t \in {0, 43200000, MsPerDay - 1}}

InitWeek ==
    /\ now \in Instants
    /\ timestamp \in {toISOString(t) : t \in Instants}
    /\ inCurrentWeek = FALSE
    /\ weekChecked = FALSE
    /\ renderedAt = now
    /\ handled = 0
    /\ submissionsToAnalyze = <<>>
    /\ userScores = <<>>
    /\ scores = <<>>
    /\ firstScores = <<>>
    /\ firstRef = 0
    /\ heap = EmptyHeap
    /\ calls = 0
    /\ AppStart
    /\ BoardStart
    /\ NetStart

\* The week filter's test of one submission: isCurrentWeek(s.timestamp).
CheckWeek ==
    /\ ~weekChecked
    /\ inCurrentWeek' = isCurrentWeek(timestamp)
    /\ weekChecked' = TRUE
    /\ UNCHANGED <<now, timestamp, renderedAt, handled, scoreVars, appVars, boardVars,
                   netVars>>

NextWeek == CheckWeek

SpecWeek == InitWeek /\ [][NextWeek]_vars

(***************************************************************************)
(* The App of the local-storage variant: login, the views, the groups,     *)
(* camera capture, submission, vote and reaction.                          *)
(*                                                                         *)
(* generateId() is Math.random().toString(36).substr(2, 9): nothing makes  *)
(* two ids differ, so every id is any member of a small set, whatever ids  *)
(* are in use.                                                             *)
(***************************************************************************)
MaxLogins == 2     \* most logins
MaxStored == 2     \* most stored submissions
MaxCreated == 1    \* most groups created
MaxJoins == 1      \* most memberships added by handleJoinGroup
MaxVotes == 2      \* most votes stored
MaxReactions == 2  \* most reactions stored

\* The ids generateId() gives out: call k of generateId() returns one of the
\* first k ids of the list, an id returned before or the next new one.
SessionIds == <<"k3x9a2b1c", "f5g6h7i8j", "q7r8s9t0u">>
\* A base-36 text that generateId() can return and that DEFAULT_GROUPS
\* holds already: the createdBy of 'mindful-moments'.
SystemId == "system"
\* What is typed into the password field of the LoginForm: nothing, or a
\* password.
Passwords == {"", "secret"}
SubmissionIds == <<"a1b2c3d4e", "e5f6g7h8i", "v1w2x3y4z">>
GroupIds == <<"g4h5i6j7k", "m1n2o3p4q">>
\* The ids generateId() can return when it has been called `called` times.
generateId(ids, called) == {ids[k] : k \in 1..(called + 1)}
\* What the users type as their names, in the order of the logins
\* (LoginForm passes email.split('@')[0], SignupForm the name).
LoginNames == <<"alex", "sam", "kim">>
\* user.name of the user logged in.
UserName == LoginNames[logins]
\* The stars of the rating control used in the model (it offers 1..5).
RatingChoices == {3, 5}
\* The first two of the reactionEmojis of QuickReactionButton, as code points.
EmojiChoices == {"U+2764 U+FE0F", "U+1F525"}
\* The views of the Navigation.
Views == {"feed", "groups", "leaderboard", "achievements"}
\* What is typed into the form of GroupsView that creates a group.
NewGroups ==
    {[name |-> "Chess Club", description |-> "A move a day",
      customActivity |-> "Show your board", isPublic |-> TRUE]}
\* A join code that is the id of no group.
NoSuchGroup == "no-such-group"

\* GLOBAL_ACTIVITIES, from Sunday on; an emoji is written as its code points.
GLOBAL_ACTIVITIES ==
    <<"Take a photo of yourself exercising U+1F4AA",
      "Show your healthy meal of the day U+1F957",
      "Capture yourself reading a book U+1F4DA",
      "Document your morning routine U+2600 U+FE0F",
      "Share your workspace setup U+1F4BB",
      "Show yourself being creative U+1F3A8",
      "Capture a moment of relaxation U+1F9D8">>

\* The clock of the App stands at noon of Wednesday 2025-01-01.
AppNow == [day |-> FirstDay + 9, ms |-> 12 * 60 * 60 * 1000]

\* globalActivity of the ActivityFeed: GLOBAL_ACTIVITIES[new Date().getDay()].
GlobalActivity == GLOBAL_ACTIVITIES[getDay(renderedAt) + 1]

\* Date.prototype.toDateString: the civil date (the weekday follows from it).
toDateString(d) == CivilFromDays(d.day)

InitApp ==
    /\ AppStart
    /\ BoardStart
    /\ NetStart
    /\ now = AppNow
    /\ timestamp = toISOString(AppNow)
    /\ inCurrentWeek = FALSE
    /\ weekChecked = FALSE
    /\ renderedAt = now
    /\ handled = 0
    /\ submissionsToAnalyze = <<>>
    /\ userScores = <<>>
    /\ scores = <<>>
    /\ firstScores = <<>>
    /\ firstRef = 0
    /\ heap = EmptyHeap
    /\ calls = 0

\* What the handlers of the App leave alone; the state they set renders the
\* App, and with it the ActivityFeed.
appRest ==
    UNCHANGED <<scoreVars, now, timestamp, inCurrentWeek, weekChecked, handled, boardVars,
                netVars>>
appFrame == appRest /\ renderedAt' = now

\* group.members.includes(u)
Includes(members, u) == \E i \in 1..Len(members) : members[i] = u

\* userVotes of checkAchievements: the votes of user u in the list.
UserVotes(list, u) ==
    Cardinality({kv \in UNION {{<<k, v>> : v \in 1..Len(list[k].votes)} :
                                   k \in 1..Len(list)} :
                    list[kv[1]].votes[kv[2]].userId = u})

\* The switch of checkAchievements: shouldEarn for the achievement id.
ShouldEarn(id, list, grps, u) ==
    LET userSubmissions == SelectSeq(list, LAMBDA sub : sub.userId = u)
        userGroups == SelectSeq(grps, LAMBDA g : g.createdBy = u)
    IN  CASE id = "first-post" -> Len(userSubmissions) >= 1
          [] id = "streak-3" -> Len(userSubmissions) >= 3
          [] id = "streak-7" -> Len(userSubmissions) >= 7
          [] id = "popular-post" ->
                \E k \in 1..Len(userSubmissions) : Len(userSubmissions[k].votes) >= 10
          [] id = "group-creator" -> Len(userGroups) >= 1
          [] id = "helpful-voter" -> UserVotes(list, u) >= 50
          [] OTHER -> FALSE

\* Mutant: an achievement that is earned is earned again, with a new date.
checkAchievementsAgain(prev, list, grps, u) ==
    [i \in 1..Len(prev) |->
        IF ShouldEarn(prev[i].id, list, grps, u)
        THEN [prev[i] EXCEPT !.earned = TRUE, !.earnedAt = toISOString(now)]
        ELSE [prev[i] EXCEPT !.earned = FALSE]]

\* checkAchievements: the achievements after setAchievements(prev => ...).
checkAchievements(prev, list, grps, u) ==
    [i \in 1..Len(prev) |->
        IF prev[i].earned THEN prev[i]
        ELSE IF ShouldEarn(prev[i].id, list, grps, u)
             THEN [prev[i] EXCEPT !.earned = TRUE, !.earnedAt = toISOString(now)]
             ELSE prev[i]]

\* The effect that follows a change of user, groups or submissions:
\* if (user) checkAchievements().
AchievementsChecked ==
    achievements' = IF user' # NoUser
                    THEN checkAchievements(achievements, submissions', groups', user')
                    ELSE achievements

\* LoginForm.handleSubmit: if (email && password) onLogin(...), and
\* handleLogin / handleSignup: the user gets an id from generateId().
handleLogin ==
    /\ user = NoUser
    /\ logins < MaxLogins
    /\ \E id \in generateId(SessionIds, logins) \cup {SystemId}, password \in Passwords :
          IF password # ""
          THEN user' = id /\ logins' = logins + 1
          ELSE UNCHANGED <<user, logins>>
    /\ lastOp' = "other"
    /\ UNCHANGED <<submissions, currentView, groups, showCamera, selectedActivity,
                   capturedPhotos>>
    /\ appFrame
    /\ AchievementsChecked

\* handleLogout: setUser(null) and setCurrentView('feed'); the ActivityFeed
\* unmounts and loses its state.
handleLogout ==
    /\ user # NoUser
    /\ ~showCamera
    /\ user' = NoUser
    /\ currentView' = "feed"
    /\ selectedActivity' = NoActivity
    /\ lastOp' = "other"
    /\ UNCHANGED <<submissions, logins, groups, showCamera, capturedPhotos>>
    /\ appFrame
    /\ AchievementsChecked

\* setCurrentView(view), called by the buttons of the Navigation; the
\* ActivityFeed is mounted in the view 'feed' only, and starts with
\* selectedActivity null whenever it is mounted.  The view that is set
\* already renders nothing.
setCurrentView ==
    /\ user # NoUser
    /\ ~showCamera
    /\ \E view \in Views :
          /\ currentView' = view
          /\ selectedActivity' =
                IF currentView = "feed" /\ view = "feed" THEN selectedActivity
                ELSE NoActivity
          /\ renderedAt' = IF view = currentView THEN renderedAt ELSE now
    /\ lastOp' = "other"
    /\ UNCHANGED <<submissions, user, logins, groups, showCamera, capturedPhotos,
                   achievements>>
    /\ appRest

\* The groups created, and the members handleJoinGroup has added: a default
\* group starts with its members, a created group with its creator.
MembersOf(grps) ==
    LET RECURSIVE Members(_)
        Members(i) == IF i = 0 THEN 0 ELSE Len(grps[i].members) + Members(i - 1)
    IN  Members(Len(grps))
Joins(grps) == MembersOf(grps) - MembersOf(DEFAULT_GROUPS) - (Len(grps) - Len(DEFAULT_GROUPS))
CreatedGroups(grps) == Len(grps) - Len(DEFAULT_GROUPS)

\* GroupsView.handleCreateGroup with the form filled in, and
\* App.handleCreateGroup: setGroups(prev => [...prev, groupData]).
handleCreateGroup ==
    /\ user # NoUser
    /\ currentView = "groups"
    /\ CreatedGroups(groups) < MaxCreated
    /\ \E newGroup \in NewGroups, id \in generateId(GroupIds, CreatedGroups(groups)) :
          groups' = Append(groups,
                           [id |-> id,
                            name |-> newGroup.name,
                            description |-> newGroup.description,
                            members |-> <<user>>,
                            customActivity |-> newGroup.customActivity,
                            createdBy |-> user,
                            memberCount |-> 1,
                            isPublic |-> newGroup.isPublic])
    /\ lastOp' = "other"
    /\ UNCHANGED <<submissions, user, logins, currentView, showCamera, selectedActivity,
                   capturedPhotos>>
    /\ appFrame
    /\ AchievementsChecked

\* The map of App.handleJoinGroup(groupId).
Joined(grps, groupId, u) ==
    [i \in 1..Len(grps) |->
        IF grps[i].id = groupId /\ ~Includes(grps[i].members, u)
        THEN [grps[i] EXCEPT !.members = Append(@, u), !.memberCount = @ + 1]
        ELSE grps[i]]

\* handleJoinGroup(groupId), called by GroupsView with the join code typed
\* (any text) or by the Join button of a public group.
handleJoinGroup ==
    /\ user # NoUser
    /\ currentView = "groups"
    /\ Joins(groups) < MaxJoins
    /\ \E groupId \in {groups[i].id : i \in 1..Len(groups)} \cup {NoSuchGroup} :
          groups' = Joined(groups, groupId, user)
    /\ lastOp' = "other"
    /\ UNCHANGED <<submissions, user, logins, currentView, showCamera, selectedActivity,
                   capturedPhotos>>
    /\ appFrame
    /\ AchievementsChecked

\* todaySubmissions of the ActivityFeed.
TodaySubmissions ==
    SelectSeq(submissions,
              LAMBDA sub : sub.userId = user
                           /\ toDateString(NewDate(sub.timestamp)) = toDateString(renderedAt))
\* Mutant: the test looks for a submission of type 'group'.
hasSubmittedAsGroup ==
    \E i \in 1..Len(TodaySubmissions) : TodaySubmissions[i].type = "group"

hasSubmittedGlobal ==
    \E i \in 1..Len(TodaySubmissions) : TodaySubmissions[i].type = "global"
submittedGroupIds ==
    {TodaySubmissions[i].groupId :
        i \in {j \in 1..Len(TodaySubmissions) : TodaySubmissions[j].type = "group"}}

\* The submit buttons of the groups of the user: the groups the user is a
\* member of and has not submitted to today.
OfferedGroupActivities ==
    {[type |-> "group", activity |-> groups[i].customActivity, groupId |-> groups[i].id] :
        i \in {j \in 1..Len(groups) :
                  /\ Includes(groups[j].members, user)
                  /\ groups[j].id \notin submittedGroupIds}}

\* Mutant: the button of the global challenge passes the id of a group.
OfferedWithGroupId ==
    {[type |-> "global", activity |-> GlobalActivity, groupId |-> groups[1].id] :
        x \in {1} \ {IF hasSubmittedGlobal THEN 1 ELSE 0}}
    \cup OfferedGroupActivities

\* The challenges whose submit button the ActivityFeed shows.
OfferedActivities ==
    {[type |-> "global", activity |-> GlobalActivity, groupId |-> "null"] :
        x \in {1} \ {IF hasSubmittedGlobal THEN 1 ELSE 0}}
    \cup OfferedGroupActivities

\* ActivityFeed.handleSubmitActivity: a submit button opens the camera.
OpenCamera ==
    /\ user # NoUser
    /\ currentView = "feed"
    /\ ~showCamera
    /\ Len(submissions) < MaxStored
    /\ \E a \in OfferedActivities : selectedActivity' = a
    /\ showCamera' = TRUE
    /\ capturedPhotos' = NoPhotos
    /\ lastOp' = "other"
    /\ UNCHANGED <<submissions, user, logins, currentView, groups>>
    /\ appFrame
    /\ UNCHANGED achievements

\* CameraCapture.capturePhoto(camera): the state of the CameraCapture
\* renders the camera, not the ActivityFeed above it.
capturePhoto ==
    /\ showCamera
    /\ \E camera \in {"front", "back"} :
          /\ capturedPhotos[camera] = "null"
          /\ capturedPhotos' = [capturedPhotos EXCEPT ![camera] = camera \o ".jpg"]
    /\ lastOp' = "other"
    /\ UNCHANGED <<submissions, user, logins, currentView, groups, showCamera,
                   selectedActivity, renderedAt>>
    /\ appRest
    /\ UNCHANGED achievements

\* App.handleSubmitActivity(activityData) when generateId() returns id: the
\* stored list after it.
handleSubmitActivity(activityData, id) ==
    LET submission ==
            [id |-> id,
             type |-> activityData.type,
             activity |-> activityData.activity,
             groupId |-> activityData.groupId,
             photos |-> activityData.photos,
             userId |-> activityData.userId,
             userName |-> UserName,
             votes |-> <<>>,
             reactions |-> <<>>,
             timestamp |-> toISOString(now)]
    IN  <<submission>> \o submissions

\* ActivityFeed.handlePhotoCapture(photos), the camera's onCapture.
handlePhotoCapture(photos) ==
    /\ \E id \in generateId(SubmissionIds, Len(submissions)) :
          submissions' =
              IF selectedActivity # NoActivity
              THEN handleSubmitActivity(
                       [type |-> selectedActivity.type,
                        activity |-> selectedActivity.activity,
                        groupId |-> selectedActivity.groupId,
                        photos |-> photos,
                        timestamp |-> toISOString(now),
                        userId |-> user], id)
              ELSE submissions
    /\ showCamera' = FALSE
    /\ selectedActivity' = NoActivity

\* Mutant: the Share button submits whatever has been captured.
CanShareAlways(photos) == TRUE

\* The test of CameraCapture.handleSubmit (and of the Share button).
CanShare(photos) == photos.front # "null" /\ photos.back # "null"

\* CameraCapture.handleSubmit with both photos taken (otherwise it only
\* alerts): onCapture, then onClose.
CameraSubmit ==
    /\ showCamera
    /\ CanShare(capturedPhotos)
    /\ handlePhotoCapture(capturedPhotos)
    /\ capturedPhotos' = NoPhotos
    /\ lastOp' = "other"
    /\ UNCHANGED <<user, logins, currentView, groups>>
    /\ appFrame
    /\ AchievementsChecked

\* The camera's close button: onClose.
CameraClose ==
    /\ showCamera
    /\ showCamera' = FALSE
    /\ capturedPhotos' = NoPhotos
    /\ lastOp' = "other"
    /\ UNCHANGED <<submissions, user, logins, currentView, groups, selectedActivity>>
    /\ appFrame
    /\ UNCHANGED achievements

\* findIndex(v => v.userId === user.id): 0 stands for -1.
FindIndexOfUser(list, u) ==
    IF \E i \in 1..Len(list) : list[i].userId = u
    THEN CHOOSE i \in 1..Len(list) :
            list[i].userId = u /\ \A j \in 1..(i - 1) : list[j].userId # u
    ELSE 0

\* Mutant: the vote is pushed whether or not the user has voted before.
VotesAlwaysPushed(votes, u, rating) == Append(votes, [userId |-> u, rating |-> rating])

\* The votes of the voted submission after handleVote.
VotesAfter(votes, u, rating) ==
    LET existingVoteIndex == FindIndexOfUser(votes, u)
    IN  IF existingVoteIndex > 0
        THEN [votes EXCEPT ![existingVoteIndex] = [userId |-> u, rating |-> rating]]
        ELSE Append(votes, [userId |-> u, rating |-> rating])

\* Mutant: the reaction is pushed whether or not the user has reacted before.
ReactionsAlwaysPushed(reactions, u, emoji) ==
    Append(reactions, [userId |-> u, emoji |-> emoji])

\* The reactions of the submission reacted to after handleReact.
ReactionsAfter(reactions, u, emoji) ==
    LET existingReactionIndex == FindIndexOfUser(reactions, u)
    IN  IF existingReactionIndex > 0
        THEN [reactions EXCEPT ![existingReactionIndex] = [userId |-> u, emoji |-> emoji]]
        ELSE Append(reactions, [userId |-> u, emoji |-> emoji])

\* prev.map(...) of handleVote: every submission with the id is voted on.
Voted(list, submissionId, rating) ==
    [i \in 1..Len(list) |->
        IF list[i].id = submissionId
        THEN [list[i] EXCEPT !.votes = VotesAfter(@, user, rating)]
        ELSE list[i]]

\* prev.map(...) of handleReact: every submission with the id is reacted to.
Reacted(list, submissionId, emoji) ==
    [i \in 1..Len(list) |->
        IF list[i].id = submissionId
        THEN [list[i] EXCEPT !.reactions = ReactionsAfter(@, user, emoji)]
        ELSE list[i]]

\* The votes and the reactions a list of submissions stores.
VotesStored(list) ==
    LET RECURSIVE Count(_)
        Count(i) == IF i = 0 THEN 0 ELSE Len(list[i].votes) + Count(i - 1)
    IN  Count(Len(list))
ReactionsStored(list) ==
    LET RECURSIVE Count(_)
        Count(i) == IF i = 0 THEN 0 ELSE Len(list[i].reactions) + Count(i - 1)
    IN  Count(Len(list))

\* submission.userId !== currentUser.id: the SubmissionCard shows the rating
\* control.
RatingOffered(sub) == sub.userId # user

\* handleVote(submissionId, rating), called by the rating control, which a
\* SubmissionCard of the feed shows on the submissions of other users.
handleVote ==
    /\ user # NoUser
    /\ currentView = "feed"
    /\ ~showCamera
    /\ \E i \in 1..Len(submissions), rating \in RatingChoices :
          /\ RatingOffered(submissions[i])
          /\ submissions' = Voted(submissions, submissions[i].id, rating)
          /\ VotesStored(submissions') <= MaxVotes
          /\ lastOp' = IF FindIndexOfUser(submissions[i].votes, user) > 0
                       THEN "vote-replaced" ELSE "vote-added"
    /\ UNCHANGED <<user, logins, currentView, groups, showCamera, selectedActivity,
                   capturedPhotos>>
    /\ appFrame
    /\ AchievementsChecked

\* handleReact(submissionId, emoji), called by QuickReactionButton.
handleReact ==
    /\ user # NoUser
    /\ currentView = "feed"
    /\ ~showCamera
    /\ \E i \in 1..Len(submissions), emoji \in EmojiChoices :
          /\ submissions' = Reacted(submissions, submissions[i].id, emoji)
          /\ ReactionsStored(submissions') <= MaxReactions
          /\ lastOp' = IF FindIndexOfUser(submissions[i].reactions, user) > 0
                       THEN "reaction-replaced" ELSE "reaction-added"
    /\ UNCHANGED <<user, logins, currentView, groups, showCamera, selectedActivity,
                   capturedPhotos>>
    /\ appFrame
    /\ AchievementsChecked

NextApp ==
    \/ handleLogin
    \/ handleLogout
    \/ setCurrentView
    \/ handleCreateGroup
    \/ handleJoinGroup
    \/ OpenCamera
    \/ capturePhoto
    \/ CameraSubmit
    \/ CameraClose
    \/ handleVote
    \/ handleReact

SpecApp == InitApp /\ [][NextApp]_vars

(***************************************************************************)
(* The feed over several days: the clock passes midnight between the       *)
(* operations of the feed.                                                 *)
(***************************************************************************)
MaxAppDays == 2    \* days the clock of the feed runs through

\* The clock reaches the next day.  Nothing renders; a page of the
\* ActivityFeed that is shown stays as it was rendered, and where none is
\* shown the next one is rendered when it is mounted.
NextDay ==
    /\ now.day < AppNow.day + MaxAppDays - 1
    /\ now' = [now EXCEPT !.day = @ + 1]
    /\ renderedAt' = IF user # NoUser /\ currentView = "feed" THEN renderedAt ELSE now'
    /\ UNCHANGED <<timestamp, inCurrentWeek, weekChecked, handled, scoreVars,
                   appVars, boardVars, netVars>>

\* updateTimeLeft, called every 60 s by the interval of the ActivityFeed:
\* setTimeLeft renders the ActivityFeed.
updateTimeLeft ==
    /\ user # NoUser
    /\ currentView = "feed"
    /\ renderedAt # now
    /\ renderedAt' = now
    /\ lastOp' = "other"
    /\ UNCHANGED <<submissions, user, logins, currentView, groups, showCamera,
                   selectedActivity, capturedPhotos, achievements>>
    /\ appRest

\* The interval of the App, every 30 s while a user is logged in:
\* setSubmissions(prev => [...prev]), which renders the App and runs the
\* effect of checkAchievements.
PollSubmissions ==
    /\ user # NoUser
    /\ submissions' = submissions
    /\ lastOp' = "other"
    /\ UNCHANGED <<user, logins, currentView, groups, showCamera, selectedActivity,
                   capturedPhotos>>
    /\ appFrame
    /\ AchievementsChecked

NextFeed ==
    \/ updateTimeLeft
    \/ PollSubmissions
    \/ handleLogin
    \/ handleLogout
    \/ setCurrentView
    \/ handleCreateGroup
    \/ handleJoinGroup
    \/ OpenCamera
    \/ capturePhoto
    \/ CameraSubmit
    \/ CameraClose
    \/ NextDay

SpecFeed == InitApp /\ [][NextFeed]_vars

(***************************************************************************)
(* The achievements over the life of the App: the feed over several days,  *)
(* the votes, and the click on an achievement of the AchievementsView.     *)
(***************************************************************************)
\* handleMarkAchievementSeen, called by the click on an earned achievement
\* that has not been seen; the effect does not depend on achievements, so
\* checkAchievements does not run.
handleMarkAchievementSeen ==
    \E i \in 1..Len(achievements) :
        /\ user # NoUser
        /\ currentView = "achievements"
        /\ achievements[i].earned
        /\ ~achievements[i].seen
        /\ achievements' =
               [j \in 1..Len(achievements) |->
                   IF achievements[j].id = achievements[i].id
                   THEN [achievements[j] EXCEPT !.seen = TRUE]
                   ELSE achievements[j]]
        /\ lastOp' = "seen"
        /\ UNCHANGED <<submissions, user, logins, currentView, groups, showCamera,
                       selectedActivity, capturedPhotos>>
        /\ appFrame

NextAchieve == NextFeed \/ handleVote \/ handleMarkAchievementSeen

SpecAchieve == InitApp /\ [][NextAchieve]_vars

(***************************************************************************)
(* The Leaderboard over the stored submissions: the weekly and the         *)
(* all-time scores of one render.                                          *)
(***************************************************************************)
MaxBoardSubs == 2    \* most stored submissions the Leaderboard is given

\* The clock at a render: noon of Monday 2025-02-03, and the last
\* millisecond of Sunday 2025-01-12.
BoardClocks ==
    {[day |-> FirstDay + 42, ms |-> 12 * 60 * 60 * 1000],
     [day |-> FirstDay + 20, ms |-> MsPerDay - 1]}

\* The timestamps of the stored submissions: Monday 2025-02-03 00:00, noon
\* of Monday 2025-01-27 and of Monday 2025-01-06, or none.
BoardTimestamps ==
    {toISOString([day |-> FirstDay + 42, ms |-> 0]),
     toISOString([day |-> FirstDay + 35, ms |-> 12 * 60 * 60 * 1000]),
     toISOString([day |-> FirstDay + 14, ms |-> 12 * 60 * 60 * 1000]),
     NoTimestamp}

BoardUserIds == {"demo-user-1", "9", Undefined}
BoardRatingLists == {<<>>, <<5>>, <<3, 5>>}

BoardSubmissions ==
    {[userId |-> u, userName |-> UserNameOf(u), votes |-> VotesWith(r),
      reactions |-> <<>>, timestamp |-> ts] :
        u \in BoardUserIds, r \in BoardRatingLists, ts \in BoardTimestamps}

\* What localStorage holds under 'submissions': nothing, or a list.
BoardLists == UNION {[1..n -> BoardSubmissions] : n \in 0..MaxBoardSubs}

\* DEFAULT_USERS: the ids.
DEFAULT_USERS == <<"demo-user-1", "demo-user-2", "demo-user-3", "demo-user-4">>

\* DEFAULT_GROUPS of the variant with the weekly leaderboard; the deadlines
\* are counted from the clock.
WEEKLY_DEFAULT_GROUPS ==
    <<[id |-> "fitness-crew",
       name |-> "Fitness Crew",
       description |-> "Daily fitness challenges for health enthusiasts",
       members |-> <<"demo-user-1", "demo-user-2">>,
       currentChallenge |-> "Post your workout selfie! U+1F4AA",
       nextWeekChallenges |->
           <<[id |-> "ch1", challenge |-> "Try a new exercise routine U+1F3C3",
              submittedBy |-> "demo-user-1", votes |-> <<"demo-user-2">>],
             [id |-> "ch2", challenge |-> "Healthy meal prep Sunday U+1F957",
              submittedBy |-> "demo-user-2", votes |-> <<"demo-user-1">>]>>,
       challengeSubmissionDeadline |-> toISOString([now EXCEPT !.day = @ + 3]),
       createdBy |-> "demo-user-1",
       memberCount |-> 247,
       isPublic |-> TRUE],
      [id |-> "book-club",
       name |-> "Book Club",
       description |-> "Reading enthusiasts sharing daily progress",
       members |-> <<"demo-user-1", "demo-user-3">>,
       currentChallenge |-> "Share what you're reading today U+1F4D6",
       nextWeekChallenges |->
           <<[id |-> "ch3", challenge |-> "Show your book collection U+1F4DA",
              submittedBy |-> "demo-user-3", votes |-> <<"demo-user-1">>],
             [id |-> "ch4", challenge |-> "Read in a new location U+1F333",
              submittedBy |-> "demo-user-1", votes |-> <<>>]>>,
       challengeSubmissionDeadline |-> toISOString([now EXCEPT !.day = @ + 2]),
       createdBy |-> "demo-user-1",
       memberCount |-> 156,
       isPublic |-> TRUE],
      [id |-> "mindful-moments",
       name |-> "Mindful Moments",
       description |-> "Daily mindfulness and meditation practice",
       members |-> <<"demo-user-4">>,
       currentChallenge |-> "Share your moment of peace today U+1F9D8 U+200D U+2640 U+FE0F",
       nextWeekChallenges |-> <<>>,
       challengeSubmissionDeadline |-> toISOString([now EXCEPT !.day = @ + 4]),
       createdBy |-> "demo-user-4",
       memberCount |-> 89,
       isPublic |-> TRUE]>>

\* The results of Math.random() in the order of the calls, as counts of
\* 1/RandomUnit; a tape is read round and round.
RandomUnit == 5 * 8 * 3
RandomTapes == {<<0>>, <<119>>, <<60, 100, 30, 119, 10>>}
MathRandom(tape, k) == tape[((k - 1) % Len(tape)) + 1]
\* Math.floor(Math.random() * n) of call k.
RandomBelow(tape, k, n) == (MathRandom(tape, k) * n) \div RandomUnit

\* new Date(d.getTime() - ms)
MinusMs(d, ms) ==
    LET t == d.ms - (ms % MsPerDay)
        days == ms \div MsPerDay
    IN  IF t >= 0 THEN [day |-> d.day - days, ms |-> t]
        ELSE [day |-> d.day - days - 1, ms |-> t + MsPerDay]

\* The submission that generateDemoSubmissions pushes for the user with
\* index userIndex in round i of the loop of this week (prev FALSE) or of
\* the week before (prev TRUE), when k calls of Math.random() came before:
\* the length of votes, the ratings, then the length of reactions.
DemoSubmission(tape, userIndex, i, prev, k) ==
    LET uid == DEFAULT_USERS[userIndex + 1]
        activities == <<"Post your workout selfie! U+1F4AA",
                        "Share what you're reading today U+1F4D6",
                        "Take a photo of yourself exercising U+1F4AA",
                        "Show your healthy meal of the day U+1F957">>
        emojis == <<"U+2764 U+FE0F", "U+1F525", "U+1F44F", "U+1F62E", "U+1F602">>
        base == IF prev THEN 1400000000 ELSE 1500000000
        photo(n) == "https://images.unsplash.com/photo-" \o ToString(n)
                        \o "?w=400&h=300&fit=crop"
        nVotes == RandomBelow(tape, k + 1, IF prev THEN 8 ELSE 5)
        nReactions == RandomBelow(tape, k + nVotes + 2, IF prev THEN 5 ELSE 3)
    IN  [id |-> (IF prev THEN "demo-prev-" ELSE "demo-") \o uid \o "-" \o ToString(i),
         userId |-> uid,
         userName |-> UserNameOf(uid),
         type |-> IF ~prev /\ i = 1 THEN "group" ELSE "global",
         groupId |-> IF prev THEN Undefined
                     ELSE IF i = 1
                          THEN WEEKLY_DEFAULT_GROUPS[(userIndex % Len(WEEKLY_DEFAULT_GROUPS)) + 1].id
                          ELSE "null",
         activity |-> activities[((IF prev THEN i ELSE userIndex) % Len(activities)) + 1],
         photos |-> [front |-> photo(base + userIndex * 1000 + i),
                     back |-> photo(base + 1 + userIndex * 1000 + i)],
         timestamp |-> toISOString(
                           IF prev THEN MinusMs(now, 7 * MsPerDay + i * 3600000)
                           ELSE MinusMs(now, userIndex * 3600000 + i * 1800000)),
         votes |-> [v \in 1..nVotes |->
                       [userId |-> "voter-" \o ToString(v - 1),
                        rating |-> RandomBelow(tape, k + 1 + v, 5) + 1]],
         reactions |-> [r \in 1..nReactions |->
                           [userId |-> "reactor-" \o ToString(r - 1),
                            emoji |-> emojis[((r - 1) % (IF prev THEN 5 ELSE 3)) + 1]]]]

\* generateDemoSubmissions(): for every user of DEFAULT_USERS two submissions
\* of this week, then three of the week before.
generateDemoSubmissions(tape) ==
    LET RECURSIVE Push(_, _)
        Push(acc, j) ==
            IF j >= 5 * Len(DEFAULT_USERS) THEN acc.submissions
            ELSE LET pos == j % 5
                     sub == DemoSubmission(tape, j \div 5,
                                           IF pos < 2 THEN pos ELSE pos - 2,
                                           pos >= 2, acc.called)
                 IN  CHOOSE all \in
                         {Push(next, j + 1) :
                             next \in {[submissions |-> Append(acc.submissions, sub),
                                        called |-> acc.called + Len(sub.votes) + 2]}} :
                         TRUE
    IN  Push([submissions |-> <<>>, called |-> 0], 0)

\* The initializer of the submissions state: the stored list if there is
\* one and it is not empty, the demo submissions otherwise.
InitialSubmissions(stored, tape) ==
    IF Len(stored) > 0 THEN stored ELSE generateDemoSubmissions(tape)

\* The App with the weekly leaderboard and the Leaderboard before its
\* render, whatever the submissions are; the array of the submissions is on
\* the heap.
BoardRest ==
    /\ heap = HeapOf(submissions)
    /\ BoardStart
    /\ NetStart
    /\ user = "demo-user-1"
    /\ logins = 0
    /\ currentView = "feed"
    /\ groups = WEEKLY_DEFAULT_GROUPS
    /\ showCamera = FALSE
    /\ selectedActivity = NoActivity
    /\ capturedPhotos = NoPhotos
    /\ achievements = NotEarned(WEEKLY_ACHIEVEMENTS)
    /\ timestamp = NoTimestamp
    /\ inCurrentWeek = FALSE
    /\ weekChecked = FALSE
    /\ renderedAt = now
    /\ handled = 0
    /\ submissionsToAnalyze = <<>>
    /\ userScores = <<>>
    /\ scores = <<>>
    /\ firstScores = <<>>
    /\ firstRef = 0
    /\ calls = 0

\* The App when it is constructed, with a user in localStorage: it has taken
\* its submissions from localStorage, or made the demo submissions; its
\* effects have not run yet.
InitBoard ==
    /\ now \in BoardClocks
    /\ \E stored \in BoardLists, tape \in RandomTapes :
          submissions = InitialSubmissions(stored, tape)
    /\ lastOp = "start"
    /\ BoardRest

\* The Leaderboard called on its own, with any list as its submissions
\* prop, the empty one included; no App is mounted around it.
InitLeaderboard ==
    /\ now \in BoardClocks
    /\ submissions \in BoardLists
    /\ lastOp = "other"
    /\ BoardRest

\* s => isCurrentWeek(s.timestamp).  new Date(undefined) is an Invalid Date,
\* whose week key "NaN-WNaN" is not the key of the clock.
InCurrentWeek(s) == s.timestamp # NoTimestamp /\ isCurrentWeek(s.timestamp)

\* const weeklySubmissions = submissions.filter(s => isCurrentWeek(s.timestamp))
WeeklySubmissions(list) == SelectSeq(list, InCurrentWeek)

\* Mutant: the elements that do not pass are removed from the array itself.
FilteredInPlace(h, ref) ==
    LET arr == h.arrays[ref]
        kept == WeeklySubmissions([i \in 1..Len(arr) |->
                    [ref |-> arr[i], timestamp |-> h.objects[arr[i]].timestamp]])
    IN  [heap |-> [h EXCEPT !.arrays[ref] = [i \in 1..Len(kept) |-> kept[i].ref]],
         ref |-> ref]

\* submissions.filter(s => isCurrentWeek(s.timestamp)) called on the array
\* with reference ref: a new array with the elements that pass, in their
\* order.
FilteredByWeek(h, ref) ==
    LET arr == h.arrays[ref]
        kept == WeeklySubmissions([i \in 1..Len(arr) |->
                    [ref |-> arr[i], timestamp |-> h.objects[arr[i]].timestamp]])
    IN  NewArray(h, [i \in 1..Len(kept) |-> kept[i].ref])

\* const allTimeSubmissions = submissions: the same array under another name.
AllTimeSubmissions(ref) == ref

\* The button of the Navigation that chooses the Leaderboard, and the render
\* of the Leaderboard with the array of the submissions prop: the weekly
\* array is filtered out of it, calculateUserScores is called with the weekly
\* array and then with the array of the prop itself, and the rows are read
\* from the two arrays returned.  The prop is read back from its array.
Render ==
    /\ lastOp # "start"
    /\ ~rendered
    /\ \E weekly \in {FilteredByWeek(heap, PropRef)} :
       \E weeklyReturned \in {calculateUserScoresAt(weekly.heap, weekly.ref)} :
       \E allTimeReturned \in {calculateUserScoresAt(weeklyReturned.heap,
                                                      AllTimeSubmissions(PropRef))} :
          /\ heap' = allTimeReturned.heap
          /\ weeklyScores' = Deref(allTimeReturned.heap, weeklyReturned.ref)
          /\ allTimeScores' = Deref(allTimeReturned.heap, allTimeReturned.ref)
          /\ submissions' = Deref(allTimeReturned.heap, PropRef)
    /\ rendered' = TRUE
    /\ currentView' = "leaderboard"
    /\ UNCHANGED <<user, logins, groups, showCamera, selectedActivity, capturedPhotos,
                   lastOp, achievements, sortedUsers, scoreVars, weekVars, netVars>>

NextLeaderboard == Render

SpecLeaderboard == InitLeaderboard /\ [][NextLeaderboard]_vars

(***************************************************************************)
(* The 'Weekly Champion' achievement of the variant with the weekly        *)
(* leaderboard: checkAchievements and the Leaderboard over the same        *)
(* submissions.                                                            *)
(***************************************************************************)
MaxHandled == 2      \* most handler calls after the App is mounted

\* The clock of this section: noon of Monday 2025-02-03.
ChampionClock == [day |-> FirstDay + 42, ms |-> 12 * 60 * 60 * 1000]

\* What the stored submissions are made of: the author, the ratings, and the
\* timestamp, Monday 2025-02-03 00:00 or noon of Monday 2025-01-06.
ChampionChoices ==
    {"demo-user-1", "9"}
        \X BoardRatingLists
        \X {toISOString([day |-> FirstDay + 42, ms |-> 0]),
            toISOString([day |-> FirstDay + 14, ms |-> 12 * 60 * 60 * 1000])}

\* The stored submission at place i of the list.
StoredSubmission(choice, i) ==
    [id |-> "s" \o ToString(i),
     type |-> "global",
     activity |-> GLOBAL_ACTIVITIES[1],
     groupId |-> "null",
     photos |-> [front |-> "front.jpg", back |-> "back.jpg"],
     timestamp |-> choice[3],
     userId |-> choice[1],
     userName |-> UserNameOf(choice[1]),
     votes |-> VotesWith(choice[2]),
     reactions |-> <<>>]

\* What localStorage holds under 'submissions': nothing, or a list.
ChampionLists ==
    UNION {{[i \in 1..n |-> StoredSubmission(f[i], i)] : f \in [1..n -> ChampionChoices]} :
              n \in 0..MaxBoardSubs}

\* The results of Math.random() when the demo submissions of this section
\* are generated.
ChampionTapes == {<<60, 100, 30, 119, 10>>}

\* The App when it is constructed: the user, the groups, the submissions
\* and the achievements as the initializers of useState leave them.
InitChampion ==
    /\ now = ChampionClock
    /\ \E stored \in ChampionLists, tape \in ChampionTapes :
          submissions = InitialSubmissions(stored, tape)
    /\ BoardStart
    /\ NetStart
    /\ user \in {NoUser, "demo-user-1", "9"}
    /\ logins = 0
    /\ currentView = "feed"
    /\ groups = WEEKLY_DEFAULT_GROUPS
    /\ showCamera = FALSE
    /\ selectedActivity = NoActivity
    /\ capturedPhotos = NoPhotos
    /\ lastOp = "start"
    /\ achievements = NotEarned(WEEKLY_ACHIEVEMENTS)
    /\ timestamp = NoTimestamp
    /\ inCurrentWeek = FALSE
    /\ weekChecked = FALSE
    /\ renderedAt = now
    /\ handled = 0
    /\ submissionsToAnalyze = <<>>
    /\ userScores = <<>>
    /\ scores = <<>>
    /\ firstScores = <<>>
    /\ firstRef = 0
    /\ heap = EmptyHeap
    /\ calls = 0

\* The body of the forEach callback over the submissions of the week: the
\* object weeklyScores, from user id to points, after one submission.
WeeklyPointsStep(obj, submission) ==
    LET k == submission.userId
        created == IF HasKey(obj, k) THEN obj
                   ELSE Put(obj, k, [userId |-> k, totalPoints |-> Num(0)])
    IN  IF Len(submission.votes) > 0
        THEN Put(created, k,
                 [Get(created, k) EXCEPT
                    !.totalPoints = AddPoints(@, AvgRating(submission.votes))])
        ELSE created

\* weeklySubmissions.forEach(...): the object weeklyScores.  Each step is
\* bound by a quantifier, so that it is computed once.
WeeklyScoresOf(weekly) ==
    LET RECURSIVE ForEach(_, _)
        ForEach(obj, i) ==
            IF i > Len(weekly) THEN obj
            ELSE CHOOSE all \in
                     {ForEach(next, i + 1) : next \in {WeeklyPointsStep(obj, weekly[i])}} :
                     TRUE
    IN  ForEach(<<>>, 1)

\* Object.entries(weeklyScores).sort(([,a], [,b]) => b - a)
SortedWeekly(list) ==
    CHOOSE sorted \in
        {SortScores(ObjectValues(WeeklyScoresOf(weekly))) :
            weekly \in {WeeklySubmissions(list)}} : TRUE

\* isWeeklyWinner
IsWeeklyWinner(list, u) ==
    \E sortedWeekly \in {SortedWeekly(list)} :
        Len(sortedWeekly) > 0 /\ sortedWeekly[1].userId = u

\* userChallenges of checkAchievements: the challenges of all the groups
\* that the user has submitted.
UserChallenges(grps, u) ==
    LET RECURSIVE Count(_)
        Count(i) ==
            IF i = 0 THEN 0
            ELSE Len(SelectSeq(grps[i].nextWeekChallenges,
                               LAMBDA ch : ch.submittedBy = u)) + Count(i - 1)
    IN  Count(Len(grps))

\* The switch of checkAchievements in the variant with the weekly
\* leaderboard.
ShouldEarnWeekly(id, list, grps, u) ==
    CASE id = "weekly-winner" ->
            /\ IsWeeklyWinner(list, u)
            /\ Len(SelectSeq(list, LAMBDA sub : sub.userId = u /\ InCurrentWeek(sub))) > 0
      [] id = "challenge-creator" -> UserChallenges(grps, u) >= 1
      [] OTHER -> ShouldEarn(id, list, grps, u)

\* checkAchievements of the variant with the weekly leaderboard.
checkAchievementsWeekly(prev, list, grps, u) ==
    [i \in 1..Len(prev) |->
        IF prev[i].earned THEN prev[i]
        ELSE IF ShouldEarnWeekly(prev[i].id, list, grps, u)
             THEN [prev[i] EXCEPT !.earned = TRUE, !.earnedAt = toISOString(now)]
             ELSE prev[i]]

\* The effect that follows a change of user, groups or submissions:
\* if (user) checkAchievements().
ChampionChecked ==
    achievements' = IF user' # NoUser
                    THEN checkAchievementsWeekly(achievements, submissions', groups', user')
                    ELSE achievements

\* What the handlers of this App leave alone.
championRest ==
    UNCHANGED <<scoreVars, now, timestamp, inCurrentWeek, weekChecked, renderedAt,
                boardVars, netVars>>

\* The view stays, and the camera as it is.
viewRest == UNCHANGED <<currentView, showCamera, selectedActivity, capturedPhotos>>

\* A handler is called once the App is mounted.
Handled(name) ==
    /\ lastOp # "start"
    /\ handled < MaxHandled
    /\ handled' = handled + 1
    /\ lastOp' = name
    /\ championRest

\* The effect of checkAchievements when the App has mounted.
CheckChampion ==
    /\ lastOp = "start"
    /\ lastOp' = "mounted"
    /\ UNCHANGED <<submissions, user, logins, groups, handled>>
    /\ championRest
    /\ viewRest
    /\ ChampionChecked

\* The App with its Leaderboard: the effect of the mount, then the button of
\* the Navigation and the render.
NextBoard == CheckChampion \/ Render

SpecBoard == InitBoard /\ [][NextBoard]_vars

\* The interval of the App, every 30 s while a user is logged in:
\* setSubmissions(prev => [...prev]).
PollSubmissionsWeekly ==
    /\ user # NoUser
    /\ submissions' = submissions
    /\ UNCHANGED <<user, logins, groups>>
    /\ viewRest
    /\ Handled("poll")
    /\ ChampionChecked

\* LoginForm.handleSubmit and handleLogin / handleSignup of this variant;
\* "9" is an id of generateId() that stored submissions carry.
handleLoginWeekly ==
    /\ user = NoUser
    /\ logins < MaxLogins
    /\ \E id \in generateId(SessionIds, logins) \cup {"9"}, password \in Passwords :
          IF password # ""
          THEN user' = id /\ logins' = logins + 1
          ELSE UNCHANGED <<user, logins>>
    /\ UNCHANGED <<submissions, groups>>
    /\ viewRest
    /\ Handled("login")
    /\ ChampionChecked

\* handleLogout of this variant, called by the button of the Navigation,
\* which the camera covers: setUser(null) and setCurrentView('feed'); the
\* ActivityFeed is unmounted and loses its state.
handleLogoutWeekly ==
    /\ user # NoUser
    /\ ~showCamera
    /\ user' = NoUser
    /\ currentView' = "feed"
    /\ selectedActivity' = NoActivity
    /\ UNCHANGED <<submissions, logins, groups, showCamera, capturedPhotos>>
    /\ Handled("logout")
    /\ ChampionChecked

\* user.name: the name of DEFAULT_USERS for a stored user, or what was
\* typed at the login.
UserNameWeekly == IF logins = 0 THEN UserNameOf(user) ELSE LoginNames[logins]

\* The ids generateId() gives to the challenges.
ChallengeIds == <<"c7d8e9f0a", "h2i3j4k5l">>

\* GroupsView.handleCreateGroup of this variant with the form filled in,
\* and App.handleCreateGroup: setGroups(prev => [...prev, groupData]).
handleCreateGroupWeekly ==
    /\ user # NoUser
    /\ currentView = "groups"
    /\ viewRest
    /\ Len(groups) < Len(WEEKLY_DEFAULT_GROUPS) + MaxCreated
    /\ \E newGroup \in NewGroups,
          id \in generateId(GroupIds, Len(groups) - Len(WEEKLY_DEFAULT_GROUPS)) :
          groups' = Append(groups,
                           [name |-> newGroup.name,
                            description |-> newGroup.description,
                            customActivity |-> newGroup.customActivity,
                            isPublic |-> newGroup.isPublic,
                            id |-> id,
                            members |-> <<user>>,
                            createdBy |-> user,
                            memberCount |-> 1,
                            currentChallenge |-> newGroup.customActivity,
                            nextWeekChallenges |-> <<>>,
                            challengeSubmissionDeadline |->
                                toISOString([now EXCEPT !.day = @ + 7])])
    /\ UNCHANGED <<submissions, user, logins>>
    /\ Handled("create-group")
    /\ ChampionChecked

\* handleJoinGroup(groupId) of this variant, called by GroupsView with the
\* join code typed (any text) or by the Join button of a public group.
handleJoinGroupWeekly ==
    /\ user # NoUser
    /\ currentView = "groups"
    /\ viewRest
    /\ \E groupId \in {groups[i].id : i \in 1..Len(groups)} \cup {NoSuchGroup} :
          groups' = Joined(groups, groupId, user)
    /\ UNCHANGED <<submissions, user, logins>>
    /\ Handled("join-group")
    /\ ChampionChecked

\* The map of handleSubmitGroupChallenge(groupId, challenge) when
\* generateId() returns id.
ChallengeSubmitted(grps, groupId, challenge, id, u) ==
    [i \in 1..Len(grps) |->
        IF grps[i].id = groupId
        THEN [grps[i] EXCEPT
                !.nextWeekChallenges =
                    Append(@, [id |-> id, challenge |-> challenge,
                               submittedBy |-> u, votes |-> <<>>])]
        ELSE grps[i]]

\* GroupsView.handleSubmitChallenge(groupId) with a text typed, and
\* handleSubmitGroupChallenge: the input is shown in a group of the user to
\* which the user has submitted no challenge; "ch1" is an id of
\* generateId() that a challenge of DEFAULT_GROUPS carries.
handleSubmitGroupChallenge ==
    /\ user # NoUser
    /\ currentView = "groups"
    /\ viewRest
    /\ \E g \in 1..Len(groups), id \in generateId(ChallengeIds, 0) \cup {"ch1"} :
          /\ Includes(groups[g].members, user)
          /\ \A c \in 1..Len(groups[g].nextWeekChallenges) :
                groups[g].nextWeekChallenges[c].submittedBy # user
          /\ groups' = ChallengeSubmitted(groups, groups[g].id, "Walk to work", id, user)
    /\ UNCHANGED <<submissions, user, logins>>
    /\ Handled("submit-challenge")
    /\ ChampionChecked

\* The map of handleVoteGroupChallenge(groupId, challengeId).
ChallengeVoted(grps, groupId, challengeId, u) ==
    [i \in 1..Len(grps) |->
        IF grps[i].id = groupId
        THEN [grps[i] EXCEPT
                !.nextWeekChallenges =
                    [c \in 1..Len(@) |->
                        IF @[c].id = challengeId
                        THEN [@[c] EXCEPT !.votes = Append(@, u)]
                        ELSE @[c]]]
        ELSE grps[i]]

\* handleVoteGroupChallenge(groupId, challengeId), called by the vote button
\* that a group of the user shows on the challenges of the others the user
\* has not voted for.
handleVoteGroupChallenge ==
    /\ user # NoUser
    /\ currentView = "groups"
    /\ viewRest
    /\ \E g \in 1..Len(groups) :
          /\ Includes(groups[g].members, user)
          /\ \E c \in 1..Len(groups[g].nextWeekChallenges) :
                LET challenge == groups[g].nextWeekChallenges[c]
                IN  /\ challenge.submittedBy # user
                    /\ \A v \in 1..Len(challenge.votes) : challenge.votes[v] # user
                    /\ groups' = ChallengeVoted(groups, groups[g].id, challenge.id, user)
    /\ UNCHANGED <<submissions, user, logins>>
    /\ Handled("vote-challenge")
    /\ ChampionChecked

\* The submit buttons of the ActivityFeed of this variant: the global
\* challenge and the current challenges of the groups of the user, as long
\* as the user has not submitted to them today.
OfferedActivitiesWeekly ==
    {[type |-> "global", activity |-> GlobalActivity, groupId |-> "null"] :
        x \in {1} \ {IF hasSubmittedGlobal THEN 1 ELSE 0}}
    \cup
    {[type |-> "group", activity |-> groups[i].currentChallenge, groupId |-> groups[i].id] :
        i \in {j \in 1..Len(groups) :
                  /\ Includes(groups[j].members, user)
                  /\ groups[j].id \notin submittedGroupIds}}

\* setCurrentView(view) of this variant, called by the buttons of the
\* Navigation, which the camera covers; the ActivityFeed is mounted in the
\* view 'feed' only, and starts with selectedActivity null whenever it is
\* mounted.  No state the effect depends on changes.
setCurrentViewWeekly ==
    /\ lastOp # "start"
    /\ user # NoUser
    /\ ~showCamera
    /\ \E view \in Views :
          /\ currentView' = view
          /\ selectedActivity' =
                IF currentView = "feed" /\ view = "feed" THEN selectedActivity
                ELSE NoActivity
    /\ UNCHANGED <<submissions, user, logins, groups, showCamera, capturedPhotos,
                   lastOp, handled, achievements>>
    /\ championRest

\* ActivityFeed.handleSubmitActivity of this variant: a submit button opens
\* the camera.
OpenCameraWeekly ==
    /\ lastOp # "start"
    /\ user # NoUser
    /\ currentView = "feed"
    /\ ~showCamera
    /\ handled < MaxHandled
    /\ \E a \in OfferedActivitiesWeekly : selectedActivity' = a
    /\ showCamera' = TRUE
    /\ capturedPhotos' = NoPhotos
    /\ UNCHANGED <<submissions, user, logins, currentView, groups, lastOp, handled,
                   achievements>>
    /\ championRest

\* CameraCapture.capturePhoto(camera) of this variant; a second click on the
\* same button takes the same photo of the model again and changes no state.
capturePhotoWeekly ==
    /\ showCamera
    /\ \E camera \in {"front", "back"} :
          /\ capturedPhotos[camera] = "null"
          /\ capturedPhotos' = [capturedPhotos EXCEPT ![camera] = camera \o ".jpg"]
    /\ UNCHANGED <<submissions, user, logins, currentView, groups, showCamera,
                   selectedActivity, lastOp, handled, achievements>>
    /\ championRest

\* The camera's close button of this variant: onClose.
CameraCloseWeekly ==
    /\ showCamera
    /\ showCamera' = FALSE
    /\ capturedPhotos' = NoPhotos
    /\ UNCHANGED <<submissions, user, logins, currentView, groups, selectedActivity,
                   lastOp, handled, achievements>>
    /\ championRest

\* CameraCapture.handleSubmit with both photos taken (otherwise it only
\* alerts): onCapture, which is ActivityFeed.handlePhotoCapture and
\* App.handleSubmitActivity of this variant, setSubmissions(prev =>
\* [submission, ...prev]), and then onClose; "s1" is an id of generateId()
\* that a stored submission carries.
handleSubmitActivityWeekly ==
    /\ showCamera
    /\ CanShare(capturedPhotos)
    /\ \E id \in generateId(SubmissionIds, 0) \cup {"s1"} :
          submissions' =
              IF selectedActivity # NoActivity
              THEN <<[id |-> id,
                      type |-> selectedActivity.type,
                      activity |-> selectedActivity.activity,
                      groupId |-> selectedActivity.groupId,
                      photos |-> capturedPhotos,
                      timestamp |-> toISOString(now),
                      userId |-> user,
                      userName |-> UserNameWeekly,
                      votes |-> <<>>,
                      reactions |-> <<>>]>> \o submissions
              ELSE submissions
    /\ showCamera' = FALSE
    /\ selectedActivity' = NoActivity
    /\ capturedPhotos' = NoPhotos
    /\ UNCHANGED <<user, logins, currentView, groups>>
    /\ Handled("submit")
    /\ ChampionChecked

\* The place of the submission list[k] in the feed with the filter 'all':
\* how many submissions the sort from the latest timestamp on, which is
\* stable, puts before it.
FeedPlace(list, k) ==
    Cardinality({j \in 1..Len(list) :
                    \/ LET a == NewDate(list[j].timestamp)
                           b == NewDate(list[k].timestamp)
                       IN  a.day > b.day \/ (a.day = b.day /\ a.ms > b.ms)
                    \/ /\ list[j].timestamp = list[k].timestamp
                       /\ j < k})

MaxCards == 2    \* the cards of the feed that are clicked: the first ones

\* filteredSubmissions.slice(0, 20): the card of list[k] is shown, and it
\* is one of the cards clicked.
ShownInFeed(list, k) == FeedPlace(list, k) < 20 /\ FeedPlace(list, k) < MaxCards

\* The stars of the rating control used in this section (it offers 1..5).
ChampionRatings == {1, 5}

\* handleVote(submissionId, rating) of this variant, called by the rating
\* control, which a SubmissionCard of the feed shows on the submissions of
\* other users.
handleVoteWeekly ==
    /\ user # NoUser
    /\ currentView = "feed"
    /\ ~showCamera
    /\ viewRest
    /\ \E i \in 1..Len(submissions), rating \in ChampionRatings :
          /\ ShownInFeed(submissions, i)
          /\ RatingOffered(submissions[i])
          /\ submissions' = Voted(submissions, submissions[i].id, rating)
    /\ UNCHANGED <<user, logins, groups>>
    /\ Handled("vote")
    /\ ChampionChecked

\* handleReact(submissionId, emoji) of this variant, called by
\* QuickReactionButton.
handleReactWeekly ==
    /\ user # NoUser
    /\ currentView = "feed"
    /\ ~showCamera
    /\ viewRest
    /\ \E i \in 1..Len(submissions) :
          /\ ShownInFeed(submissions, i)
          /\ submissions' = Reacted(submissions, submissions[i].id, "U+1F525")
    /\ UNCHANGED <<user, logins, groups>>
    /\ Handled("react")
    /\ ChampionChecked

\* handleMarkAchievementSeen of this variant, called by the click on an
\* earned achievement that has not been seen; the effect does not depend
\* on achievements, so checkAchievements does not run.
handleMarkAchievementSeenWeekly ==
    /\ user # NoUser
    /\ currentView = "achievements"
    /\ viewRest
    /\ \E i \in 1..Len(achievements) :
          /\ achievements[i].earned
          /\ ~achievements[i].seen
          /\ achievements' =
                 [j \in 1..Len(achievements) |->
                     IF achievements[j].id = achievements[i].id
                     THEN [achievements[j] EXCEPT !.seen = TRUE]
                     ELSE achievements[j]]
    /\ UNCHANGED <<submissions, user, logins, groups>>
    /\ Handled("seen")

NextChampion ==
    \/ CheckChampion
    \/ PollSubmissionsWeekly
    \/ handleLoginWeekly
    \/ handleLogoutWeekly
    \/ handleCreateGroupWeekly
    \/ handleJoinGroupWeekly
    \/ handleSubmitGroupChallenge
    \/ handleVoteGroupChallenge
    \/ setCurrentViewWeekly
    \/ OpenCameraWeekly
    \/ capturePhotoWeekly
    \/ CameraCloseWeekly
    \/ handleSubmitActivityWeekly
    \/ handleVoteWeekly
    \/ handleReactWeekly
    \/ handleMarkAchievementSeenWeekly

SpecChampion == InitChampion /\ [][NextChampion]_vars

(***************************************************************************)
(* The Leaderboard of App.js: the scores with the streaks.                 *)
(***************************************************************************)
MaxStreakSubs == 3    \* most stored submissions the streaks are computed of

\* The clock at the render: noon of Wednesday 2025-01-01.
StreakNow == AppNow

\* The timestamps of the stored submissions: 09:00 and 18:00 of today, noon
\* of yesterday and noon of the day before.
StreakTimestamps ==
    {toISOString([day |-> StreakNow.day, ms |-> 9 * 60 * 60 * 1000]),
     toISOString([day |-> StreakNow.day, ms |-> 18 * 60 * 60 * 1000]),
     toISOString([day |-> StreakNow.day - 1, ms |-> 12 * 60 * 60 * 1000]),
     toISOString([day |-> StreakNow.day - 2, ms |-> 12 * 60 * 60 * 1000])}

StreakSubmissions ==
    {[userId |-> u, userName |-> UserNameOf(u), votes |-> VotesWith(r),
      reactions |-> <<>>, timestamp |-> ts] :
        u \in {"demo-user-1", "9"}, r \in {<<>>, <<5>>}, ts \in StreakTimestamps}

StreakLists == UNION {[1..n -> StreakSubmissions] : n \in 0..MaxStreakSubs}

InitStreak ==
    /\ submissions \in StreakLists
    /\ now = StreakNow
    /\ BoardStart
    /\ NetStart
    /\ user = "demo-user-1"
    /\ logins = 0
    /\ currentView = "feed"
    /\ groups = DEFAULT_GROUPS
    /\ showCamera = FALSE
    /\ selectedActivity = NoActivity
    /\ capturedPhotos = NoPhotos
    /\ lastOp = "other"
    /\ achievements = NotEarned(ACHIEVEMENTS)
    /\ timestamp = NoTimestamp
    /\ inCurrentWeek = FALSE
    /\ weekChecked = FALSE
    /\ renderedAt = now
    /\ handled = 0
    /\ submissionsToAnalyze = <<>>
    /\ userScores = <<>>
    /\ scores = <<>>
    /\ firstScores = <<>>
    /\ firstRef = 0
    /\ heap = HeapOf(submissions)
    /\ calls = 0

\* new Date(b.timestamp) - new Date(a.timestamp), in milliseconds.
CompareNewestFirst(a, b) ==
    LET da == NewDate(a.timestamp)
        db == NewDate(b.timestamp)
    IN  (db.day - da.day) * MsPerDay + (db.ms - da.ms)

\* .sort((a, b) => new Date(b.timestamp) - new Date(a.timestamp)); the sort
\* is stable.
SortNewestFirst(list) ==
    LET RECURSIVE Insert(_, _)
        Insert(sorted, x) ==
            IF sorted = <<>> THEN <<x>>
            ELSE LET last == sorted[Len(sorted)]
                 IN  IF CompareNewestFirst(last, x) > 0
                     THEN Append(Insert(SubSeq(sorted, 1, Len(sorted) - 1), x), last)
                     ELSE Append(sorted, x)
        RECURSIVE From(_, _)
        From(sorted, i) ==
            IF i > Len(list) THEN sorted ELSE From(Insert(sorted, list[i]), i + 1)
    IN  From(<<>>, 1)

\* The loop over userSubmissions: the streak, with currentDate at midnight of
\* the day currentDay.
RECURSIVE StreakLoop(_, _, _, _)
StreakLoop(userSubmissions, i, currentDay, streak) ==
    IF i > Len(userSubmissions) THEN streak
    ELSE LET submissionDate == setHours(NewDate(userSubmissions[i].timestamp), 0, 0, 0, 0)
         IN  IF submissionDate = [day |-> currentDay, ms |-> 0]
             THEN StreakLoop(userSubmissions, i + 1, currentDay - 1, streak + 1)
             ELSE streak

\* .sort((a, b) => new Date(b.timestamp) - new Date(a.timestamp)) called on
\* the array with reference ref: the array itself is ordered.
SortedNewestFirstInPlace(h, ref) ==
    LET arr == h.arrays[ref]
        sorted == SortNewestFirst([i \in 1..Len(arr) |->
                      [ref |-> arr[i], timestamp |-> h.objects[arr[i]].timestamp]])
    IN  [h EXCEPT !.arrays[ref] = [i \in 1..Len(sorted) |-> sorted[i].ref]]

\* const userSubmissions = submissions.filter(s => s.userId ===
\* userScore.userId).sort(...): a new array with the submissions of the user
\* u, which is then sorted.
UserSubmissionsAt(h, u) ==
    LET Sorted(filtered) ==
            [heap |-> SortedNewestFirstInPlace(filtered.heap, filtered.ref),
             ref |-> filtered.ref]
    IN  Sorted(NewArray(h, SelectSeq(h.arrays[PropRef], LAMBDA r : h.objects[r].userId = u)))

\* The entry of userScores in the Leaderboard of App.js, whose forEach is
\* that of calculateUserScores: its fields and streak: 0, before the streak
\* is computed.
AppScore(e) ==
    [userId |-> e.userId, userName |-> e.userName, totalPoints |-> e.totalPoints,
     submissions |-> e.submissions, averageRating |-> e.averageRating,
     streak |-> 0, reactions |-> e.reactions]

\* Object.values(userScores).forEach(userScore => { ...; userScore.streak =
\* streak; }), from entry i on: the heap and the entries afterwards.
RECURSIVE StreaksFrom(_, _, _)
StreaksFrom(h, values, i) ==
    IF i > Len(values) THEN [heap |-> h, values |-> values]
    ELSE CHOOSE all \in
            {StreaksFrom(userSubmissions.heap,
                         [values EXCEPT ![i].streak =
                             StreakLoop(Deref(userSubmissions.heap, userSubmissions.ref), 1,
                                        setHours(now, 0, 0, 0, 0).day, 0)],
                         i + 1) :
                userSubmissions \in {UserSubmissionsAt(h, values[i].userId)}} : TRUE

\* sortedUsers of the Leaderboard of App.js, computed from the array of the
\* submissions prop: the heap afterwards and the reference of the array.
SortedUsers(h) ==
    LET Sorted(values) == [heap |-> SortedInPlace(values.heap, values.ref, PropRef),
                           ref |-> values.ref]
        Values(entries) == Sorted(NewArray(entries.heap, entries.refs))
        Entries(streaks) == Values(NewObjects(streaks.heap, streaks.values))
        Scored(values) == Entries(StreaksFrom(h, [i \in 1..Len(values) |-> AppScore(values[i])], 1))
    IN  Scored(ObjectValues(UserScoresAfter(Deref(h, PropRef))))

\* The button of the Navigation that chooses the Leaderboard, and the render
\* of the Leaderboard of App.js.
RenderStreaks ==
    /\ ~rendered
    /\ \E returned \in {SortedUsers(heap)} :
          /\ heap' = returned.heap
          /\ sortedUsers' = Deref(returned.heap, returned.ref)
          /\ submissions' = Deref(returned.heap, PropRef)
    /\ rendered' = TRUE
    /\ currentView' = "leaderboard"
    /\ UNCHANGED <<weeklyScores, allTimeScores, user, logins, groups, showCamera,
                   selectedActivity, capturedPhotos, lastOp, achievements, scoreVars, weekVars,
                   netVars>>

NextStreak == RenderStreaks

SpecStreak == InitStreak /\ [][NextStreak]_vars

(***************************************************************************)
(* Reference definitions the claims are stated with.                       *)
(***************************************************************************)
\* calculateUserScores(submissionsToAnalyze) has returned.
Computed == calls > 0

\* The submission of user u whose votes carry the given ratings.
SubmissionOf(u, ratings) ==
    [userId |-> u, userName |-> UserNameOf(u), votes |-> VotesWith(ratings), reactions |-> <<>>]

\* The indices of the submissions of user u in S.
IndicesOf(u, S) == {i \in 1..Len(S) : S[i].userId = u}

\* The sum of the ratings of the votes of a submission.
TotalRating(sub) ==
    LET RECURSIVE Total(_)
        Total(n) == IF n = 0 THEN 0 ELSE Total(n - 1) + sub.votes[n].rating
    IN  Total(Len(sub.votes))

\* The average vote rating of a submission that has votes, as a double.
MeanRating(sub) == NumDiv(Num(TotalRating(sub)), Num(Len(sub.votes)))

\* 10 times the average vote rating of a submission, 0 when it has no votes.
PointsOfSubmission(sub) ==
    IF Len(sub.votes) = 0 THEN Num(0) ELSE NumMul(Num(10), MeanRating(sub))

\* The sum of F(S[i]) over the indices i in I, added up as doubles from the
\* lowest index to the highest.
SumOverIndices(I, S, F(_)) ==
    LET RECURSIVE Sum(_)
        Sum(J) ==
            IF J = {} THEN Num(0)
            ELSE LET m == CHOOSE x \in J : \A y \in J : x >= y
                 IN  NumAdd(Sum(J \ {m}), F(S[m]))
    IN  Sum(I)

\* Exact fractions <<n, d>> in lowest terms, n >= 0 and d > 0: the values
\* the doubles of the program approximate.
RECURSIVE GCD(_, _)
GCD(a, b) == IF b = 0 THEN a ELSE GCD(b, a % b)
Rat(n, d) == LET g == GCD(n, d) IN <<n \div g, d \div g>>
RatAdd(a, b) == Rat(a[1] * b[2] + b[1] * a[2], a[2] * b[2])

\* The exact average vote rating of a submission that has votes.
ExactMeanRating(sub) == Rat(TotalRating(sub), Len(sub.votes))

\* Exactly 10 times the average vote rating, 0 when there are no votes.
ExactPoints(sub) ==
    IF Len(sub.votes) = 0 THEN <<0, 1>> ELSE Rat(10 * TotalRating(sub), Len(sub.votes))

\* The exact sum of F(S[i]) over the indices i in I.
ExactSumOverIndices(I, S, F(_)) ==
    LET RECURSIVE Sum(_)
        Sum(J) ==
            IF J = {} THEN <<0, 1>>
            ELSE LET m == CHOOSE x \in J : TRUE
                 IN  RatAdd(F(S[m]), Sum(J \ {m}))
    IN  Sum(I)

\* The rounding the claims allow: a relative error of 2^-48, some 3.6e-15.
\* Every sum, product and quotient of doubles is within 2^-53 of the exact
\* one, so the few operations behind a score stay far below 2^-48.
RoundingBits == Precision - 5

\* The double x is the fraction r up to rounding: |x - r| <= r * 2^-48.
WithinRounding(x, r) ==
    LET k == IF x.e < 0 THEN -x.e ELSE 0
        a == BigMulSmall(BigShl(x.m, x.e + k), r[2])
        b == BigShl(BigFromInt(r[1]), k)
        gap == IF BigCmp(a, b) >= 0 THEN BigSub(a, b) ELSE BigSub(b, a)
    IN  BigCmp(BigShl(gap, RoundingBits), b) <= 0

\* The doubles x and y are equal up to rounding: |x - y| <= max(x, y) * 2^-48.
Close(x, y) ==
    LET e == IF x.e <= y.e THEN x.e ELSE y.e
        a == BigShl(x.m, x.e - e)
        b == BigShl(y.m, y.e - e)
        hi == IF BigCmp(a, b) >= 0 THEN a ELSE b
        lo == IF BigCmp(a, b) >= 0 THEN b ELSE a
    IN  BigCmp(BigShl(BigSub(hi, lo), RoundingBits), hi) <= 0

\* The entry of user u in an array of scores.
EntryOf(u, arr) == arr[CHOOSE i \in 1..Len(arr) : arr[i].userId = u]
UsersIn(arr) == {arr[i].userId : i \in 1..Len(arr)}
PositionOf(u, arr) == CHOOSE i \in 1..Len(arr) : arr[i].userId = u

\* The rearrangements of a list.
Rearrangements(S) ==
    {[i \in 1..Len(S) |-> S[f[i]]] :
        f \in {g \in [1..Len(S) -> 1..Len(S)] : \A a, b \in 1..Len(S) : g[a] = g[b] => a = b}}

(***************************************************************************)
(* Claims.                                                                 *)
(***************************************************************************)

\* C1: every returned user's totalPoints is the sum, over that user's
\* submissions in the list, of 10 times the submission's average vote
\* rating, a submission without votes adding 0: it is that sum added up
\* as doubles in the order of the list, and it is the exact sum up to
\* rounding.
C1_TotalPointsIsSum ==
    Computed =>
        \A i \in 1..Len(scores) :
            LET I == IndicesOf(scores[i].userId, submissionsToAnalyze)
            IN  /\ scores[i].totalPoints =
                       SumOverIndices(I, submissionsToAnalyze, PointsOfSubmission)
                /\ WithinRounding(scores[i].totalPoints,
                                  ExactSumOverIndices(I, submissionsToAnalyze, ExactPoints))

\* A user with a submission rated once, one rated three times and one
\* without votes was scored, and the points are no whole number.
C1_Witness ==
    /\ Computed
    /\ \E i \in 1..Len(scores) :
          /\ scores[i].submissions = 3
          /\ scores[i].votes = 4
          /\ scores[i].totalPoints.e < 0

\* Scenario A: a submission rated 5 followed by a submission rated 3, both
\* by the same user.
IsScenarioA ==
    \E u \in UserIds :
        submissionsToAnalyze = <<SubmissionOf(u, <<5>>), SubmissionOf(u, <<3>>)>>

\* C2 as stated: in scenario A the user gets totalPoints = 40 and a
\* submission count of 2.
C2_ScenarioA_AsStated ==
    (Computed /\ IsScenarioA) =>
        (scores[1].totalPoints = Num(40) /\ scores[1].submissions = 2)

\* C2 amended: in scenario A the user gets totalPoints = 80 (50 + 30), an
\* averageRating of 4 and a submission count of 2.
C2_ScenarioA ==
    (Computed /\ IsScenarioA) =>
        /\ Len(scores) = 1
        /\ scores[1].totalPoints = Num(80)
        /\ scores[1].averageRating = Num(4)
        /\ scores[1].submissions = 2

C2_Witness == Computed /\ IsScenarioA

\* C3: for every rearrangement of the list, calculateUserScores gives each
\* user the same totalPoints and the same averageRating, also when some of
\* the user's submissions have no votes.
C3_OrderIndependent ==
    Computed =>
        \A P \in Rearrangements(submissionsToAnalyze) :
            LET other == calculateUserScores(P)
            IN  \A u \in UsersIn(scores) :
                    /\ EntryOf(u, other).totalPoints = EntryOf(u, scores).totalPoints
                    /\ EntryOf(u, other).averageRating = EntryOf(u, scores).averageRating

\* Every submission of user u in S has at least one vote.
AllRated(u, S) == \A i \in IndicesOf(u, S) : Len(S[i].votes) > 0

\* The exact mean of the average ratings of the submissions of S at the
\* indices I, each submission counting once.
ExactMeanOfAverages(I, S) ==
    LET total == ExactSumOverIndices(I, S, ExactMeanRating)
    IN  Rat(total[1], total[2] * Cardinality(I))

\* C4: when every submission of a user has a vote, the user's averageRating
\* is the arithmetic mean of the submissions' average ratings, each
\* submission counting once however many votes it has; the double the
\* program returns is that mean up to rounding.
C4_MeanOfAverages ==
    Computed =>
        \A i \in 1..Len(scores) :
            LET u == scores[i].userId
                I == IndicesOf(u, submissionsToAnalyze)
            IN  AllRated(u, submissionsToAnalyze) =>
                    WithinRounding(scores[i].averageRating,
                                   ExactMeanOfAverages(I, submissionsToAnalyze))

\* A user with three submissions, rated once or three times, was scored.
C4_Witness ==
    /\ Computed
    /\ \E u \in UserIds :
          /\ AllRated(u, submissionsToAnalyze)
          /\ Cardinality(IndicesOf(u, submissionsToAnalyze)) = 3
          /\ {Len(submissionsToAnalyze[i].votes) : i \in IndicesOf(u, submissionsToAnalyze)}
                = {1, 3}

\* Scenario C: one user, a submission without votes and a submission with a
\* single vote of rating 5, in either order.
IsScenarioC ==
    \E u \in UserIds :
        \/ submissionsToAnalyze = <<SubmissionOf(u, <<>>), SubmissionOf(u, <<5>>)>>
        \/ submissionsToAnalyze = <<SubmissionOf(u, <<5>>), SubmissionOf(u, <<>>)>>

\* C5: in scenario C the user gets a submission count of 2, totalPoints = 50
\* and averageRating = 5, whichever submission comes first.
C5_ScenarioC ==
    (Computed /\ IsScenarioC) =>
        /\ scores[1].submissions = 2
        /\ scores[1].totalPoints = Num(50)
        /\ scores[1].averageRating = Num(5)

\* C8: the returned array is in descending order of totalPoints.
C8_SortedDescending ==
    Computed =>
        \A i \in 1..(Len(scores) - 1) :
            NumLeq(scores[i + 1].totalPoints, scores[i].totalPoints)

\* Three users with different points were ranked, and the user first in the
\* input is not first in the ranking.
C8_Witness ==
    /\ Computed
    /\ Len(scores) = 3
    /\ scores[1].totalPoints # scores[2].totalPoints
    /\ scores[2].totalPoints # scores[3].totalPoints
    /\ submissionsToAnalyze[1].userId = scores[3].userId

\* C9 as stated: every rearrangement of the list yields the users in the
\* same order, also when two users have equal totalPoints.
C9_SameOrder_AsStated ==
    Computed =>
        \A P \in Rearrangements(submissionsToAnalyze) :
            LET other == calculateUserScores(P)
            IN  [i \in 1..Len(other) |-> other[i].userId]
                    = [i \in 1..Len(scores) |-> scores[i].userId]

\* The first submission of user u in S.
FirstIndexOf(u, S) == CHOOSE i \in IndicesOf(u, S) : \A j \in IndicesOf(u, S) : i <= j

\* C9 amended: every rearrangement of the list yields the same users, each
\* with the same totalPoints up to rounding, and the same relative order of
\* any two users whose totalPoints differ by more than rounding; two users
\* with equal totalPoints whose ids are not array indices are ranked in the
\* order of their first submissions.
C9_SameOrderUpToTies ==
    Computed =>
        /\ \A P \in Rearrangements(submissionsToAnalyze) :
              LET other == calculateUserScores(P)
              IN  /\ Len(other) = Len(scores)
                  /\ UsersIn(other) = UsersIn(scores)
                  /\ \A i \in 1..Len(scores) :
                        Close(EntryOf(scores[i].userId, other).totalPoints,
                              scores[i].totalPoints)
                  /\ \A i, j \in 1..Len(scores) :
                        (i < j /\ ~Close(scores[i].totalPoints, scores[j].totalPoints)) =>
                            PositionOf(scores[i].userId, other)
                                < PositionOf(scores[j].userId, other)
        /\ \A i, j \in 1..Len(scores) :
              (/\ i < j
               /\ scores[i].totalPoints = scores[j].totalPoints
               /\ ArrayIndex(scores[i].userId) < 0
               /\ ArrayIndex(scores[j].userId) < 0) =>
                  FirstIndexOf(scores[i].userId, submissionsToAnalyze)
                      < FirstIndexOf(scores[j].userId, submissionsToAnalyze)

\* Two users tied below a third one, the tied users having plain ids.
C9_Witness ==
    /\ Computed
    /\ Len(scores) = 3
    /\ scores[1].totalPoints # scores[2].totalPoints
    /\ scores[2].totalPoints = scores[3].totalPoints
    /\ ArrayIndex(scores[2].userId) < 0
    /\ ArrayIndex(scores[3].userId) < 0

\* C10: every call on the same list returns what the first call returned,
\* whatever calls were made in between, and the array the first call
\* returned still holds it: a call reads the elements of its argument only and
\* writes to the objects and the array it has made itself.
C10_SameResultEveryCall ==
    calls > 0 =>
        /\ scores = firstScores
        /\ Deref(heap, firstRef) = firstScores

\* A second call returned on a list that ranks two users, one of them with
\* points, after a call on a slice of the list that came after the first
\* call: the third array is the slice, which holds a submission.
C10_Witness ==
    /\ calls = 2
    /\ SliceCalls = 1
    /\ firstRef = 2
    /\ heap.arrays[3] # <<>>
    /\ heap.arrays[3][1] <= Len(heap.arrays[PropRef])
    /\ Len(scores) >= 2
    /\ \E i \in 1..Len(submissionsToAnalyze) : Len(submissionsToAnalyze[i].votes) > 0

\* The Monday 00:00:00.000 that begins the week of an instant: the latest
\* Monday not after it (day 4, 1970-01-05, was a Monday).
MondayOf(d) == [day |-> d.day - ((d.day + 3) % 7), ms |-> 0]

\* Instant a is not after instant b.
NotAfter(a, b) == a.day < b.day \/ (a.day = b.day /\ a.ms <= b.ms)

\* C6: a submission counts as current week exactly when the Monday that
\* begins its week is the Monday that begins the week of the clock; so no
\* submission of an earlier week counts.  Stated for the submissions that
\* are not after the clock.
C6_CurrentWeekIffSameWeekStart ==
    (weekChecked /\ NotAfter(NewDate(timestamp), now)) =>
        (inCurrentWeek <=> (getWeekStart(NewDate(timestamp)) = getWeekStart(now)))

\* C7: relative to the week of the clock, the Monday 00:00:00.000 and the
\* Sunday 23:59:59.999 of that week are in the current week and the next
\* Monday 00:00:00.000 is not.
C7_WeekBoundaries ==
    weekChecked =>
        LET monday == MondayOf(now)
            t == NewDate(timestamp)
        IN  /\ t = monday => inCurrentWeek
            /\ t = [day |-> monday.day + 6, ms |-> MsPerDay - 1] => inCurrentWeek
            /\ t = [day |-> monday.day + 7, ms |-> 0] => ~inCurrentWeek

\* The clock is in the week from Monday 2024-12-30 to Sunday 2025-01-05,
\* and the submission is of that week's last millisecond.
C7_Witness ==
    /\ weekChecked
    /\ inCurrentWeek
    /\ toISOString(MondayOf(now)) = [year |-> 2024, month |-> 12, date |-> 30, ms |-> 0]
    /\ timestamp = [year |-> 2025, month |-> 1, date |-> 5, ms |-> MsPerDay - 1]

(***************************************************************************)
(* Votes and reactions of the stored submissions.                          *)
(***************************************************************************)
\* The entries of user u in a votes or reactions list.
EntriesOf(list, u) == {i \in 1..Len(list) : list[i].userId = u}

\* No user has two entries in the list.
OneEntryPerUser(list) ==
    \A i, j \in 1..Len(list) : list[i].userId = list[j].userId => i = j

\* The entries of the users other than u, in their order.
EntriesOfOthers(list, u) == SelectSeq(list, LAMBDA e : e.userId # u)

\* The step is a handleVote call, respectively a handleReact call.
IsVoteStep == lastOp' \in {"vote-added", "vote-replaced"}
IsReactStep == lastOp' \in {"reaction-added", "reaction-replaced"}

\* C11: in every stored submission no voter has two votes, after every step;
\* and a handleVote(id, rating) call leaves the voter with one vote, of the
\* new rating, keeps the votes of the others, and keeps the number of votes
\* when the voter had voted before.
C11_OneVotePerVoter ==
    [][/\ \A k \in 1..Len(submissions') : OneEntryPerUser(submissions'[k].votes)
       /\ \A i \in 1..Len(submissions), rating \in RatingChoices :
            (/\ IsVoteStep
             /\ submissions[i].userId # user
             /\ submissions' = Voted(submissions, submissions[i].id, rating))
            => LET before == submissions[i].votes
                   after == submissions'[i].votes
               IN  /\ Cardinality(EntriesOf(after, user)) = 1
                   /\ \A e \in EntriesOf(after, user) : after[e].rating = rating
                   /\ EntriesOfOthers(after, user) = EntriesOfOthers(before, user)
                   /\ EntriesOf(before, user) # {}
                        => /\ Len(after) = Len(before)
                           /\ EntriesOf(after, user) = EntriesOf(before, user)]_vars

\* A user has rated a submission 3 and then 5: the submission has one vote.
C11_Witness ==
    /\ lastOp = "vote-replaced"
    /\ \E k \in 1..Len(submissions) :
          /\ Len(submissions[k].votes) = 1
          /\ submissions[k].votes[1] = [userId |-> user, rating |-> 5]

\* C12: in every stored submission no user has two reactions, after every
\* step; and a handleReact(id, emoji) call leaves the user with one reaction,
\* of the new emoji, keeps the reactions of the others, and keeps the number
\* of reactions when the user had reacted before.
C12_OneReactionPerUser ==
    [][/\ \A k \in 1..Len(submissions') : OneEntryPerUser(submissions'[k].reactions)
       /\ \A i \in 1..Len(submissions), emoji \in EmojiChoices :
            (/\ IsReactStep
             /\ submissions' = Reacted(submissions, submissions[i].id, emoji))
            => LET before == submissions[i].reactions
                   after == submissions'[i].reactions
               IN  /\ Cardinality(EntriesOf(after, user)) = 1
                   /\ \A e \in EntriesOf(after, user) : after[e].emoji = emoji
                   /\ EntriesOfOthers(after, user) = EntriesOfOthers(before, user)
                   /\ EntriesOf(before, user) # {}
                        => /\ Len(after) = Len(before)
                           /\ EntriesOf(after, user) = EntriesOf(before, user)]_vars

\* The second of two reactors has changed the emoji: still two reactions.
C12_Witness ==
    /\ lastOp = "reaction-replaced"
    /\ \E k \in 1..Len(submissions) :
          /\ Len(submissions[k].reactions) = 2
          /\ submissions[k].reactions[1].userId # user
          /\ submissions[k].reactions[2] = [userId |-> user, emoji |-> "U+1F525"]


(***************************************************************************)
(* The photos of the submissions made with the camera.                     *)
(***************************************************************************)
\* Both photos are there.
BothPhotos(photos) == photos.front # "null" /\ photos.back # "null"

\* C19: every stored submission has a front and a back photo, and the camera
\* is open only with a challenge selected, so that every onCapture call
\* makes a submission of the photos it is given.
C19_BothPhotos ==
    /\ \A k \in 1..Len(submissions) : BothPhotos(submissions[k].photos)
    /\ showCamera => selectedActivity # NoActivity

\* A submission of two captured photos is stored and the camera is closed.
C19_Witness ==
    /\ ~showCamera
    /\ \E k \in 1..Len(submissions) :
          submissions[k].photos = [front |-> "front.jpg", back |-> "back.jpg"]

(***************************************************************************)
(* What a vote and a reaction leave alone.                                 *)
(***************************************************************************)
\* The submission but for its votes and reactions.
Created(sub) ==
    [id |-> sub.id, userId |-> sub.userId, userName |-> sub.userName,
     type |-> sub.type, groupId |-> sub.groupId, activity |-> sub.activity,
     photos |-> sub.photos, timestamp |-> sub.timestamp]

\* C20: a handleVote call changes the votes of one submission and nothing
\* else of the stored list; a handleReact call changes the reactions of one
\* submission and nothing else.
C20_OnlyTheTargetChanges ==
    [][(IsVoteStep \/ IsReactStep) =>
         /\ Len(submissions') = Len(submissions)
         /\ \A k \in 1..Len(submissions) :
               /\ Created(submissions'[k]) = Created(submissions[k])
               /\ IsVoteStep => submissions'[k].reactions = submissions[k].reactions
               /\ IsReactStep => submissions'[k].votes = submissions[k].votes
         /\ Cardinality({k \in 1..Len(submissions) :
                            submissions'[k] # submissions[k]}) <= 1]_vars


(***************************************************************************)
(* Submissions without votes.                                              *)
(***************************************************************************)
\* The entry of user u in the object userScores, the zeros when there is none.
ScoreOf(obj, u) ==
    IF HasKey(obj, u) THEN Get(obj, u)
    ELSE [totalPoints |-> Num(0), submissions |-> 0, averageRating |-> Num(0)]

\* C14: every returned user's submission count is the number of that user's
\* submissions in the list; and the forEach step of a submission without
\* votes adds one to its author's count and leaves the author's totalPoints
\* and averageRating, and every other user's entry, as they were.
C14_UnratedSubmissionCounts ==
    Computed =>
        /\ \A i \in 1..Len(scores) :
              scores[i].submissions =
                  Cardinality(IndicesOf(scores[i].userId, submissionsToAnalyze))
        /\ userScores = UserScoresAfter(submissionsToAnalyze)
        /\ \A k \in 1..Len(submissionsToAnalyze) :
              submissionsToAnalyze[k].votes = <<>> =>
                  LET u == submissionsToAnalyze[k].userId
                      before == UserScoresAfter(SubSeq(submissionsToAnalyze, 1, k - 1))
                      after == UserScoresAfter(SubSeq(submissionsToAnalyze, 1, k))
                  IN  /\ ScoreOf(after, u).submissions = ScoreOf(before, u).submissions + 1
                      /\ ScoreOf(after, u).totalPoints = ScoreOf(before, u).totalPoints
                      /\ ScoreOf(after, u).averageRating = ScoreOf(before, u).averageRating
                      /\ \A v \in UserIds \ {u} :
                            /\ HasKey(after, v) = HasKey(before, v)
                            /\ HasKey(before, v) => Get(after, v) = Get(before, v)

\* A user's submission rated 5 was followed by one of the same user without
\* votes: two submissions, 50 points, average 5.
C14_Witness ==
    /\ Computed
    /\ Len(submissionsToAnalyze) >= 2
    /\ submissionsToAnalyze[Len(submissionsToAnalyze)].votes = <<>>
    /\ \E i \in 1..Len(scores) :
          /\ scores[i].userId = submissionsToAnalyze[Len(submissionsToAnalyze)].userId
          /\ scores[i].submissions = 2
          /\ scores[i].totalPoints = Num(50)
          /\ scores[i].averageRating = Num(5)


(***************************************************************************)
(* The weekly and the all-time leaderboard.                                *)
(***************************************************************************)
\* The submission has a userId and a timestamp.
WellFormed(s) == s.userId # Undefined /\ s.timestamp # NoTimestamp

\* The timestamp of the submission lies in the week of the clock, Monday
\* 00:00:00.000 to Sunday 23:59:59.999.
InWeekWindow(s) ==
    LET monday == MondayOf(now)
        t == NewDate(s.timestamp)
    IN  /\ NotAfter(monday, t)
        /\ NotAfter(t, [day |-> monday.day + 6, ms |-> MsPerDay - 1])

\* Every submission of the list is well-formed and not after the clock.
StoredInThePast(list) ==
    \A k \in 1..Len(list) :
        WellFormed(list[k]) /\ NotAfter(NewDate(list[k].timestamp), now)

\* C13: the all-time list is calculateUserScores of all the submissions and
\* the weekly list is calculateUserScores of those whose timestamp lies in
\* the week of the clock, in their order.  Stated for well-formed
\* submissions that are not after the clock.
C13_WeeklyIsScoresOfThisWeek ==
    (rendered /\ StoredInThePast(submissions)) =>
        /\ allTimeScores = calculateUserScores(submissions)
        /\ weeklyScores = calculateUserScores(SelectSeq(submissions, InWeekWindow))

\* C15: a render of the Leaderboard leaves the submissions, their order and
\* their votes and reactions as they were: the array of the prop holds the
\* same objects in the same order, and no object that was there before the
\* render has changed.  The votes and reactions of a submission are part of
\* its object.
C15_RenderKeepsSubmissions ==
    [][(rendered' /\ ~rendered) =>
          /\ submissions' = submissions
          /\ heap'.arrays[PropRef] = heap.arrays[PropRef]
          /\ \A r \in 1..Len(heap.objects) : heap'.objects[r] = heap.objects[r]]_vars

\* Both leaderboards were computed from two submissions, the first of this
\* week and without votes, the second of an earlier week and with two votes:
\* the filter has left one out, the sort of the all-time array has put the
\* author of the second first, and the submissions are in place.
C15_Witness ==
    /\ rendered
    /\ Len(submissions) = 2
    /\ Len(submissions[1].votes) = 0
    /\ Len(submissions[2].votes) = 2
    /\ submissions[1].userId # submissions[2].userId
    /\ InCurrentWeek(submissions[1])
    /\ ~InCurrentWeek(submissions[2])
    /\ Len(weeklyScores) = 1
    /\ Len(allTimeScores) = 2
    /\ allTimeScores[1].userId = submissions[2].userId

\* The same of the Leaderboard of App.js, which sorts the submissions of
\* each user to count the streak: it sorts the array filter has returned, and
\* the array of the prop and the submissions stay as they were.
StreaksKeepSubmissions ==
    [][(rendered' /\ ~rendered) =>
          /\ submissions' = submissions
          /\ heap'.arrays[PropRef] = heap.arrays[PropRef]
          /\ \A r \in 1..Len(heap.objects) : heap'.objects[r] = heap.objects[r]]_vars

\* C16: a submission without userId or without timestamp is passed over:
\* both leaderboards are those of the well-formed submissions.
C16_MalformedSkipped ==
    rendered =>
        /\ allTimeScores = calculateUserScores(SelectSeq(submissions, WellFormed))
        /\ weeklyScores =
              calculateUserScores(WeeklySubmissions(SelectSeq(submissions, WellFormed)))

\* C17: the Leaderboard given the empty list has rendered, and its weekly
\* and its all-time list are empty; and the weekly list is empty whenever no
\* submission passes the filter of the week, calculateUserScores being called
\* with an empty array then.
C17_EmptyInEmptyOut ==
    rendered =>
        /\ submissions = <<>> => (weeklyScores = <<>> /\ allTimeScores = <<>>)
        /\ WeeklySubmissions(submissions) = <<>> => weeklyScores = <<>>

\* The Leaderboard has rendered with the empty list: both calls of
\* calculateUserScores were made with an empty array, the one the filter
\* returned and the one of the prop, and returned two more.
C17_Witness ==
    /\ rendered
    /\ submissions = <<>>
    /\ heap.arrays = <<<<>>, <<>>, <<>>, <<>>>>
    /\ weeklyScores = <<>>
    /\ allTimeScores = <<>>


(***************************************************************************)
(* The week of a date.                                                     *)
(***************************************************************************)
\* The milliseconds from instant a to instant b.
MsBetween(a, b) == (b.day - a.day) * MsPerDay + (b.ms - a.ms)

\* C18: for the date of the clock, getWeekStart is a Monday at 00:00:00.000,
\* not after the date and less than 7 days before it, six days before a
\* Sunday; getWeekEnd is 23:59:59.999 of the Sunday six days after that
\* Monday; and the date lies between the two.
C18_WeekOfADate ==
    LET weekStart == getWeekStart(now)
        weekEnd == getWeekEnd(now)
    IN  /\ getDay(weekStart) = 1
        /\ weekStart.ms = 0
        /\ NotAfter(weekStart, now)
        /\ MsBetween(weekStart, now) < 7 * MsPerDay
        /\ getDay(now) = 0 => weekStart.day = now.day - 6
        /\ getDay(weekEnd) = 0
        /\ weekEnd = [day |-> weekStart.day + 6, ms |-> MsPerDay - 1]
        /\ NotAfter(now, weekEnd)

\* The week of the last millisecond of a Sunday early in January was asked
\* for: its Monday is in the year before.
C18_Witness ==
    /\ weekChecked
    /\ getDay(now) = 0
    /\ now.ms = MsPerDay - 1
    /\ getWeekEnd(now) = now
    /\ getFullYear(getWeekStart(now)) = getFullYear(now) - 1
    /\ getDate(getWeekStart(now)) = 30


(***************************************************************************)
(* The kind of a stored submission.                                        *)
(***************************************************************************)
\* C21: a stored submission has a groupId exactly when its type is 'group'.
C21_GroupIdIffGroup ==
    \A k \in 1..Len(submissions) :
        /\ submissions[k].type \in {"global", "group"}
        /\ (submissions[k].groupId # "null") <=> (submissions[k].type = "group")

\* A user has made a global and a group submission.
C21_Witness ==
    /\ Len(submissions) = 2
    /\ submissions[1].userId = submissions[2].userId
    /\ {submissions[1].type, submissions[2].type} = {"global", "group"}
    /\ \E k \in 1..2 : submissions[k].groupId = "fitness-crew"

(***************************************************************************)
(* Votes on one's own submission.                                          *)
(***************************************************************************)
\* C30: no stored submission has a vote of its own author.
C30_NoVoteOnOwnSubmission ==
    \A k \in 1..Len(submissions) :
        \A v \in 1..Len(submissions[k].votes) :
            submissions[k].votes[v].userId # submissions[k].userId


(***************************************************************************)
(* One submission per challenge and day.                                   *)
(***************************************************************************)
\* The calendar day of a submission.
DayOf(sub) == NewDate(sub.timestamp).day

\* C27: no user has two submissions of the same day for the same challenge
\* (the global one, or the one of a group).
C27_OnePerChallengeAndDay ==
    \A i, j \in 1..Len(submissions) :
        (/\ i < j
         /\ submissions[i].userId = submissions[j].userId
         /\ DayOf(submissions[i]) = DayOf(submissions[j]))
        => \/ submissions[i].type # submissions[j].type
           \/ submissions[i].groupId # submissions[j].groupId

\* A user has made the global submission of two days running.
C27_Witness ==
    /\ Len(submissions) = 2
    /\ submissions[1].userId = submissions[2].userId
    /\ submissions[1].type = "global"
    /\ submissions[2].type = "global"
    /\ DayOf(submissions[1]) = DayOf(submissions[2]) + 1


(***************************************************************************)
(* The streak.                                                             *)
(***************************************************************************)
\* The user u has a submission on the day d.
SubmittedOn(list, u, d) ==
    \E k \in 1..Len(list) : list[k].userId = u /\ NewDate(list[k].timestamp).day = d

\* The number of days running, today the last of them, with a submission
\* of the user u.
DaysRunning(list, u) ==
    LET RECURSIVE Back(_)
        Back(n) == IF n <= Len(list) /\ SubmittedOn(list, u, now.day - n)
                   THEN Back(n + 1) ELSE n
    IN  Back(0)

\* C22: the streak of every user on the leaderboard is the number of days
\* running, ending today, on which the user has a submission.
C22_StreakIsDaysRunning ==
    rendered =>
        \A i \in 1..Len(sortedUsers) :
            sortedUsers[i].streak = DaysRunning(submissions, sortedUsers[i].userId)


(***************************************************************************)
(* The Weekly Champion.                                                    *)
(***************************************************************************)
\* The achievement with the id is earned.
Earned(id) == \E i \in 1..Len(achievements) : achievements[i].id = id /\ achievements[i].earned

\* checkAchievements marks 'weekly-winner' as earned in this step.
BecomesChampion == ~Earned("weekly-winner") /\ Earned("weekly-winner")'

\* weeklyLeaderboard of the Leaderboard, computed from the submissions
\* after the step.
WeeklyBoardAfter == calculateUserScores(WeeklySubmissions(submissions'))

\* When 'weekly-winner' is marked as earned, the user is the first entry of
\* the weekly list the Leaderboard computes from the same submissions.
ChampionTopsWeeklyBoard ==
    [][BecomesChampion =>
          (Len(WeeklyBoardAfter) > 0 /\ WeeklyBoardAfter[1].userId = user')]_vars

\* C23: when 'weekly-winner' is marked as earned, the user has a submission
\* whose timestamp lies in the week of the clock and is the first entry of
\* the weekly list of the Leaderboard.  Stated for submissions that are not
\* after the clock.
C23_ChampionOfThisWeek ==
    [][(BecomesChampion /\ StoredInThePast(submissions')) =>
          /\ \E k \in 1..Len(submissions') :
                submissions'[k].userId = user' /\ InWeekWindow(submissions'[k])
          /\ Len(WeeklyBoardAfter) > 0
          /\ WeeklyBoardAfter[1].userId = user']_vars

(***************************************************************************)
(* The backend-integrated variant of the App: the state lives on a server  *)
(* and every call of the API is answered some time after it was sent.      *)
(* The handlers run up to their await; what follows the await is a step    *)
(* of its own, taken when the answer arrives.                              *)
(***************************************************************************)
MaxLoads == 1      \* most calls of loadUserData under way at once
MaxRequests == 1   \* most other calls of the API, and timeouts, under way at once

\* The ids userAPI.create answers with.
BackendUserIds == {"user-1", "user-2"}
\* The user found in localStorage when the App starts, if any.
SavedUsers == {NoUser, "user-1"}
\* The ids submissionAPI.create gives to the submissions, in order.
BackendSubmissionIds == <<"sub-1", "sub-2", "sub-3">>
MaxServerSubs == 1   \* most submissions the server is sent

\* The group groupAPI.create answers with.
CreatedGroup == [id |-> "group-1"]

\* What groupAPI.getAll and notificationAPI.getForUser answer for user u.
GroupsOf(u) == <<[id |-> "fitness-crew"]>>
NotificationsOf(u) == <<[id |-> "welcome", user_id |-> u, read |-> FALSE]>>

\* The calls under way are a bag: two calls alike are two calls.
Started(callsUnderWay, call) == callsUnderWay (+) SetToBag({call})
Returned(callsUnderWay, call) == callsUnderWay (-) SetToBag({call})

\* A call of loadUserData by the closure of user u, waiting for the answer
\* of groupAPI.getAll; init tells that initializeApp awaits it.
LoadCalled(u, init) == [user |-> u, step |-> "groups", init |-> init, list |-> <<>>]

\* initializeApp, run by the effect when user?.id or isInitialized changed:
\* the calls of loadUserData under way after the effect.
LoadsAfterEffect(u) ==
    IF ~isInitialized /\ u # NoUser THEN Started(loads, LoadCalled(u, TRUE)) ELSE loads
\* isInitialized after the effect: without a user initializeApp sets it at
\* once, with a user only after loadUserData has returned.
InitializedAfterEffect(u) == isInitialized \/ u = NoUser

\* The views that the buttons of the MobileBottomNav and of the
\* DesktopNavigation choose.
BackendViews == {"feed", "groups", "leaderboard", "achievements", "notifications"}

\* The App after it is mounted and its effects have run; isMobileDevice()
\* tells what the window and the user agent are like.
InitBackend ==
    /\ user \in SavedUsers
    /\ isInitialized = (user = NoUser)
    /\ isMobile \in BOOLEAN
    /\ loads = IF user # NoUser THEN SetToBag({LoadCalled(user, TRUE)}) ELSE EmptyBag
    /\ lastOp = "start"
    /\ groups = <<>>
    /\ notifications = <<>>
    /\ submissions = <<>>
    /\ timers = EmptyBag
    /\ creates = EmptyBag
    /\ requests = EmptyBag
    /\ serverSubmissions = <<>>
    /\ achievements = NotEarned(WEEKLY_ACHIEVEMENTS)
    /\ logins = 0
    /\ currentView = "feed"
    /\ showCamera = FALSE
    /\ selectedActivity = NoActivity
    /\ capturedPhotos = NoPhotos
    /\ BoardStart
    /\ now = AppNow
    /\ timestamp = toISOString(AppNow)
    /\ inCurrentWeek = FALSE
    /\ weekChecked = FALSE
    /\ renderedAt = now
    /\ handled = 0
    /\ submissionsToAnalyze = <<>>
    /\ userScores = <<>>
    /\ scores = <<>>
    /\ firstScores = <<>>
    /\ firstRef = 0
    /\ heap = EmptyHeap
    /\ calls = 0

\* What the steps of this variant leave alone, and what the steps outside
\* the Navigation, the feed and its camera leave alone.
backendRest ==
    UNCHANGED <<logins, isMobile, achievements, scoreVars, weekVars, boardVars>>
backendFrame ==
    /\ backendRest
    /\ UNCHANGED <<currentView, showCamera, selectedActivity, capturedPhotos>>

\* The App is mounted.  The view 'leaderboard' renders <Leaderboard user
\* isMobile />, without the submissions prop: submissions.filter throws a
\* TypeError in the render, no error boundary catches it, and React unmounts
\* the App: its interval and listeners are cleared, and no button is left.
\* The calls and timeouts under way go on, since no promise is cancelled and
\* no timeout cleared: they call the API and set timeouts as before, and
\* what they set in the state of the App is lost.
Mounted == currentView # "leaderboard"

\* A call of the API by the closure of user u, waiting for its answer.
Request(kind, u, arg) == [kind |-> kind, user |-> u, arg |-> arg]

\* The main interface is rendered and no camera lies over it; the call or
\* the timeout that a click leads to is within the bound.
Clickable ==
    /\ Mounted
    /\ user # NoUser
    /\ isInitialized
    /\ ~showCamera
    /\ BagCardinality(requests) + BagCardinality(timers) < MaxRequests

\* A click that calls the API and leaves everything else as it is.
Requested(kind, arg) ==
    /\ requests' = Started(requests, Request(kind, user, arg))
    /\ lastOp' = "other"
    /\ UNCHANGED <<user, isInitialized, groups, notifications, submissions, loads,
                   timers, creates, serverSubmissions>>
    /\ backendFrame

\* isLoading: a login or signup is waiting for its answer.
isLoading == \E r \in BagToSet(requests) : r.kind = "login"

\* handleLogin and handleSignup up to their await: setIsLoading(true), which
\* disables the buttons of the AuthForm, and userAPI.create(userData).
handleLoginBackend ==
    /\ Mounted
    /\ user = NoUser
    /\ isInitialized
    /\ ~isLoading
    /\ requests' = Started(requests, Request("login", NoUser, "null"))
    /\ lastOp' = "other"
    /\ UNCHANGED <<user, isInitialized, groups, notifications, submissions, loads,
                   timers, creates, serverSubmissions>>
    /\ backendFrame

\* handleLogin and handleSignup once userAPI.create has answered: setUser,
\* then the effects that depend on user?.id.
LoginAnswered ==
    \E r \in BagToSet(requests), u \in BackendUserIds :
        /\ Mounted
        /\ r.kind = "login"
        /\ requests' = Returned(requests, r)
        /\ user' = u
        /\ loads' = LoadsAfterEffect(u)
        /\ isInitialized' = InitializedAfterEffect(u)
        /\ lastOp' = "login"
        /\ UNCHANGED <<groups, notifications, submissions, timers, creates,
                       serverSubmissions>>
        /\ backendFrame

\* handleLogout, with its setCurrentView('feed'), then the effects that
\* depend on user?.id.  The button is in
\* the header of the main interface, which is rendered once isInitialized is
\* set and lies under the camera while that is open; without a user the
\* ActivityFeed is unmounted and its state is lost.
handleLogoutBackend ==
    /\ Mounted
    /\ user # NoUser
    /\ isInitialized
    /\ ~showCamera
    /\ user' = NoUser
    /\ currentView' = "feed"
    /\ selectedActivity' = NoActivity
    /\ groups' = <<>>
    /\ submissions' = <<>>
    /\ notifications' = <<>>
    /\ loads' = LoadsAfterEffect(NoUser)
    /\ isInitialized' = InitializedAfterEffect(NoUser)
    /\ lastOp' = "logout"
    /\ UNCHANGED <<timers, creates, requests, serverSubmissions>>
    /\ UNCHANGED <<showCamera, capturedPhotos>>
    /\ backendRest

\* setCurrentView(view), called by the buttons of the MobileBottomNav and of
\* the DesktopNavigation, which lie under the camera while that is open; the
\* ActivityFeed is mounted in the view 'feed' only, and starts with
\* selectedActivity null whenever it is mounted.
setCurrentViewBackend ==
    /\ Mounted
    /\ user # NoUser
    /\ isInitialized
    /\ ~showCamera
    /\ \E view \in BackendViews :
          /\ currentView' = view
          /\ selectedActivity' =
                IF currentView = "feed" /\ view = "feed" THEN selectedActivity
                ELSE NoActivity
    /\ lastOp' = "other"
    /\ UNCHANGED <<user, isInitialized, groups, notifications, submissions, loads,
                   timers, creates, requests, serverSubmissions, showCamera,
                   capturedPhotos>>
    /\ backendRest

\* handleResize, the listener of the window: setIsMobile(isMobileDevice()).
\* The ActivityFeed renders the MobileCameraCapture or the
\* DesktopCameraCapture by isMobile: an open camera is mounted anew, without
\* its photos, when isMobile changes.
handleResize ==
    /\ Mounted
    /\ \E mobile \in BOOLEAN :
          /\ isMobile' = mobile
          /\ capturedPhotos' =
                IF showCamera /\ mobile # isMobile THEN NoPhotos ELSE capturedPhotos
    /\ lastOp' = "other"
    /\ UNCHANGED <<user, isInitialized, groups, notifications, submissions, loads,
                   timers, creates, requests, serverSubmissions, currentView,
                   showCamera, selectedActivity>>
    /\ UNCHANGED <<logins, achievements, scoreVars, weekVars, boardVars>>

\* A tick of the interval of the periodic refresh.
PeriodicRefresh ==
    /\ Mounted
    /\ user # NoUser
    /\ isInitialized
    /\ BagCardinality(loads) < MaxLoads
    /\ loads' = Started(loads, LoadCalled(user, FALSE))
    /\ lastOp' = "other"
    /\ UNCHANGED <<user, isInitialized, groups, notifications, submissions, timers,
                   creates, requests, serverSubmissions>>
    /\ backendFrame

\* handleVote up to its await, called by the rating control, which a
\* SubmissionCard shows on the submissions of other users:
\* submissionAPI.vote.
handleVoteBackend ==
    /\ Clickable
    /\ currentView = "feed"
    /\ \E k \in 1..Len(submissions) : submissions[k].user_id # user
    /\ Requested("reload", "null")

\* handleReact up to its await, called by the reaction buttons of a
\* SubmissionCard: submissionAPI.react.
handleReactBackend ==
    /\ Clickable
    /\ currentView = "feed"
    /\ submissions # <<>>
    /\ Requested("reload", "null")

\* GroupsView.handleJoinGroup with a join code typed, and handleJoinGroup up
\* to its await: groupAPI.join.
handleJoinGroupBackend ==
    /\ Clickable
    /\ currentView = "groups"
    /\ Requested("reload", "null")

\* handleVote, handleReact and handleJoinGroup once the API has answered:
\* setTimeout(loadUserData, ...) with the loadUserData of the render of the
\* click.
ReloadScheduled ==
    \E r \in BagToSet(requests) :
        /\ r.kind = "reload"
        /\ requests' = Returned(requests, r)
        /\ timers' = Started(timers, r.user)
        /\ lastOp' = "other"
        /\ UNCHANGED <<user, isInitialized, groups, notifications, submissions, loads,
                       creates, serverSubmissions>>
        /\ backendFrame

\* GroupsView.handleCreateGroup with the form filled in, and
\* handleCreateGroup up to its await: groupAPI.create.  The group is
\* created once.
handleCreateGroupBackend ==
    /\ Clickable
    /\ currentView = "groups"
    /\ \A i \in 1..Len(groups) : groups[i] # CreatedGroup
    /\ Requested("group", "null")

\* handleCreateGroup once groupAPI.create has answered:
\* setGroups(prev => [createdGroup, ...prev]) and
\* setTimeout(loadUserData, 1000).
GroupCreated ==
    \E r \in BagToSet(requests) :
        /\ r.kind = "group"
        /\ requests' = Returned(requests, r)
        /\ groups' = IF Mounted THEN <<CreatedGroup>> \o groups ELSE groups
        /\ timers' = Started(timers, r.user)
        /\ lastOp' = "other"
        /\ UNCHANGED <<user, isInitialized, notifications, submissions, loads,
                       creates, serverSubmissions>>
        /\ backendFrame

\* handleMarkNotificationRead up to its await, called by the click on an
\* unread notification: notificationAPI.markRead.
handleMarkNotificationRead ==
    /\ Clickable
    /\ currentView = "notifications"
    /\ \E k \in 1..Len(notifications) :
          /\ ~notifications[k].read
          /\ Requested("read", notifications[k].id)

\* handleMarkNotificationRead once notificationAPI.markRead has answered.
NotificationRead ==
    \E r \in BagToSet(requests) :
        /\ r.kind = "read"
        /\ requests' = Returned(requests, r)
        /\ notifications' =
               IF Mounted
               THEN [k \in 1..Len(notifications) |->
                        IF notifications[k].id = r.arg
                        THEN [notifications[k] EXCEPT !.read = TRUE]
                        ELSE notifications[k]]
               ELSE notifications
        /\ lastOp' = "other"
        /\ UNCHANGED <<user, isInitialized, groups, submissions, loads, timers,
                       creates, serverSubmissions>>
        /\ backendFrame

\* A call of the API is rejected: the catch of its handler logs the error
\* or shows a toast, and the finally of handleLogin sets isLoading back.
RequestFails ==
    \E r \in BagToSet(requests) :
        /\ requests' = Returned(requests, r)
        /\ lastOp' = "other"
        /\ UNCHANGED <<user, isInitialized, groups, notifications, submissions, loads,
                       timers, creates, serverSubmissions>>
        /\ backendFrame

\* A timeout fires: the loadUserData it holds tests the user of its own
\* render, who was logged in.
TimerFires ==
    \E u \in BagToSet(timers) :
        /\ BagCardinality(loads) < MaxLoads
        /\ timers' = Returned(timers, u)
        /\ loads' = Started(loads, LoadCalled(u, FALSE))
        /\ lastOp' = "other"
        /\ UNCHANGED <<user, isInitialized, groups, notifications, submissions,
                       creates, requests, serverSubmissions>>
        /\ backendFrame

\* The call l of loadUserData has gone on to the call next.
Continued(l, next) == Started(Returned(loads, l), next)

\* loadUserData after the two awaits of groupAPI.getAll: setGroups, then the
\* call of notificationAPI.getForUser.
LoadGroups ==
    \E l \in BagToSet(loads) :
        /\ l.step = "groups"
        /\ groups' = IF Mounted THEN GroupsOf(l.user) ELSE groups
        /\ loads' = Continued(l, [l EXCEPT !.step = "notifications"])
        /\ lastOp' = "other"
        /\ UNCHANGED <<user, isInitialized, notifications, submissions, timers,
                       creates, requests, serverSubmissions>>
        /\ backendFrame

\* loadUserData after the await of notificationAPI.getForUser:
\* setNotifications, then the call of submissionAPI.getAll.
LoadNotifications ==
    \E l \in BagToSet(loads) :
        /\ l.step = "notifications"
        /\ notifications' = IF Mounted THEN NotificationsOf(l.user) ELSE notifications
        /\ loads' = Continued(l, [l EXCEPT !.step = "submissions"])
        /\ lastOp' = "other"
        /\ UNCHANGED <<user, isInitialized, groups, submissions, timers, creates,
                       requests, serverSubmissions>>
        /\ backendFrame

\* The server answers submissionAPI.getAll with the submissions it holds.
ServerGetAll ==
    \E l \in BagToSet(loads) :
        /\ l.step = "submissions"
        /\ loads' = Continued(l, [l EXCEPT !.step = "answered", !.list = serverSubmissions])
        /\ lastOp' = "other"
        /\ UNCHANGED <<user, isInitialized, groups, notifications, submissions,
                       timers, creates, requests, serverSubmissions>>
        /\ backendFrame

\* loadUserData after the await of submissionAPI.getAll: setSubmissions; the
\* initializeApp that awaited this call then sets isInitialized.
LoadSubmissions ==
    \E l \in BagToSet(loads) :
        /\ l.step = "answered"
        /\ submissions' = IF Mounted THEN l.list ELSE submissions
        /\ loads' = Returned(loads, l)
        /\ isInitialized' = (isInitialized \/ (Mounted /\ l.init))
        /\ lastOp' = "other"
        /\ UNCHANGED <<user, groups, notifications, timers, creates, requests,
                       serverSubmissions>>
        /\ backendFrame

\* A call of the API by loadUserData is rejected: its catch logs the error,
\* and the initializeApp that awaited the call sets isInitialized.
LoadFails ==
    \E l \in BagToSet(loads) :
        /\ l.step # "answered"
        /\ loads' = Returned(loads, l)
        /\ isInitialized' = (isInitialized \/ (Mounted /\ l.init))
        /\ lastOp' = "other"
        /\ UNCHANGED <<user, groups, notifications, submissions, timers, creates,
                       requests, serverSubmissions>>
        /\ backendFrame

\* The submissions of the user of today, as the ActivityFeed of this
\* variant finds them; the server stamps a submission with the day it is
\* sent on, and the clock of this variant stands still.
hasSubmittedGlobalBackend ==
    \E k \in 1..Len(submissions) :
        submissions[k].user_id = user /\ submissions[k].type = "global"

\* The create calls that the server has not stored yet.
CreatesSent ==
    [c \in {d \in BagToSet(creates) : d.step = "sent"} |-> CopiesIn(c, creates)]

\* ActivityFeed.handleSubmitActivity of this variant: the submit button of
\* the global challenge opens the camera.  The groups the server answers
\* with carry no members, so that no button of a group is rendered.
OpenCameraBackend ==
    /\ user # NoUser
    /\ isInitialized
    /\ currentView = "feed"
    /\ ~showCamera
    /\ ~hasSubmittedGlobalBackend
    /\ Len(serverSubmissions) + BagCardinality(CreatesSent) < MaxServerSubs
    /\ selectedActivity' =
           [type |-> "global", activity |-> GlobalActivity, groupId |-> "null"]
    /\ showCamera' = TRUE
    /\ capturedPhotos' = NoPhotos
    /\ lastOp' = "other"
    /\ UNCHANGED netVars
    /\ UNCHANGED <<groups, submissions, user, currentView>>
    /\ backendRest

\* MobileCameraCapture.capturePhoto with currentCamera = camera
\* (DesktopCameraCapture has the same handlers).
capturePhotoBackend ==
    /\ showCamera
    /\ \E camera \in {"front", "back"} :
          /\ capturedPhotos[camera] = "null"
          /\ capturedPhotos' = [capturedPhotos EXCEPT ![camera] = camera \o ".jpg"]
    /\ lastOp' = "other"
    /\ UNCHANGED netVars
    /\ UNCHANGED <<groups, submissions, user, currentView, showCamera,
                   selectedActivity>>
    /\ backendRest

\* App.handleSubmitActivity(activityData) of this variant up to its await:
\* submissionAPI.create is called with the data and the user of this render;
\* the create calls under way after it.
handleSubmitActivityBackend(activityData) ==
    Started(creates, [user |-> user, step |-> "sent", id |-> "null",
                      type |-> activityData.type, photos |-> activityData.photos])

\* ActivityFeed.handlePhotoCapture(photos) of this variant, the camera's
\* onCapture.
handlePhotoCaptureBackend(photos) ==
    /\ creates' =
           IF selectedActivity # NoActivity
           THEN handleSubmitActivityBackend(
                    [type |-> selectedActivity.type,
                     activity |-> selectedActivity.activity,
                     group_id |-> selectedActivity.groupId,
                     photos |-> photos])
           ELSE creates
    /\ showCamera' = FALSE
    /\ selectedActivity' = NoActivity

\* MobileCameraCapture.handleSubmit with both photos taken (otherwise it only
\* alerts): onCapture, then onClose.
handleSubmitCamera ==
    /\ showCamera
    /\ capturedPhotos.front # "null" /\ capturedPhotos.back # "null"
    /\ handlePhotoCaptureBackend(capturedPhotos)
    /\ capturedPhotos' = NoPhotos
    /\ lastOp' = "other"
    /\ UNCHANGED <<isInitialized, notifications, loads, timers, requests,
                   serverSubmissions, groups, submissions, user, currentView>>
    /\ backendRest

\* The photos that handleUsePlaceholder submits.
placeholderPhotos ==
    [front |-> "https://images.unsplash.com/photo-1507003211169-0a1dd7228f2d?w=400&h=300&fit=crop",
     back |-> "https://images.unsplash.com/photo-1441986300917-64674bd600d8?w=400&h=300&fit=crop"]

\* MobileCameraCapture.handleUsePlaceholder, the button of the demo photos:
\* onCapture(placeholderPhotos) whatever has been captured, then onClose.
handleUsePlaceholder ==
    /\ showCamera
    /\ handlePhotoCaptureBackend(placeholderPhotos)
    /\ capturedPhotos' = NoPhotos
    /\ lastOp' = "other"
    /\ UNCHANGED <<isInitialized, notifications, loads, timers, requests,
                   serverSubmissions, groups, submissions, user, currentView>>
    /\ backendRest

\* The camera's close button: onClose, which leaves selectedActivity.
CameraCloseBackend ==
    /\ showCamera
    /\ showCamera' = FALSE
    /\ capturedPhotos' = NoPhotos
    /\ lastOp' = "other"
    /\ UNCHANGED netVars
    /\ UNCHANGED <<groups, submissions, user, currentView, selectedActivity>>
    /\ backendRest

\* The server stores the submission of a create call and answers with it.
ServerCreate ==
    \E c \in BagToSet(creates) :
        /\ c.step = "sent"
        /\ LET id == BackendSubmissionIds[Len(serverSubmissions) + 1]
           IN  /\ serverSubmissions' =
                      <<[id |-> id, user_id |-> c.user, type |-> c.type,
                         photos |-> c.photos]>> \o serverSubmissions
               /\ creates' = Started(Returned(creates, c),
                                      [c EXCEPT !.step = "stored", !.id = id])
        /\ lastOp' = "other"
        /\ UNCHANGED <<user, isInitialized, groups, notifications, submissions,
                       loads, timers, requests>>
        /\ backendFrame

\* handleSubmitActivity after its await:
\* setSubmissions(prev => [submission, ...prev]).
SubmissionCreated ==
    \E c \in BagToSet(creates) :
        /\ c.step = "stored"
        /\ submissions' =
               IF Mounted
               THEN <<[id |-> c.id, user_id |-> c.user, type |-> c.type,
                       photos |-> c.photos]>> \o submissions
               ELSE submissions
        /\ creates' = Returned(creates, c)
        /\ lastOp' = "other"
        /\ UNCHANGED <<user, isInitialized, groups, notifications, loads, timers,
                       requests, serverSubmissions>>
        /\ backendFrame

\* submissionAPI.create is rejected: the catch of handleSubmitActivity
\* shows a toast.
CreateFails ==
    \E c \in BagToSet(creates) :
        /\ c.step = "sent"
        /\ creates' = Returned(creates, c)
        /\ lastOp' = "other"
        /\ UNCHANGED <<user, isInitialized, groups, notifications, submissions,
                       loads, timers, requests, serverSubmissions>>
        /\ backendFrame

NextBackend ==
    \/ handleLoginBackend
    \/ LoginAnswered
    \/ handleLogoutBackend
    \/ setCurrentViewBackend
    \/ handleResize
    \/ PeriodicRefresh
    \/ handleVoteBackend
    \/ handleReactBackend
    \/ handleJoinGroupBackend
    \/ ReloadScheduled
    \/ handleCreateGroupBackend
    \/ GroupCreated
    \/ handleMarkNotificationRead
    \/ NotificationRead
    \/ RequestFails
    \/ TimerFires
    \/ LoadGroups
    \/ LoadNotifications
    \/ ServerGetAll
    \/ LoadSubmissions
    \/ LoadFails
    \/ OpenCameraBackend
    \/ capturePhotoBackend
    \/ handleSubmitCamera
    \/ handleUsePlaceholder
    \/ CameraCloseBackend
    \/ ServerCreate
    \/ SubmissionCreated
    \/ CreateFails

SpecBackend == InitBackend /\ [][NextBackend]_vars

\* C24: every successful login from the logged-out state, and every start
\* of the App with a saved user, calls loadUserData for that user by the
\* event itself: right after the event the call that initializeApp made is
\* under way.
C24_LoginLoadsUserData ==
    (lastOp \in {"start", "login"} /\ user # NoUser)
        => BagIn(LoadCalled(user, TRUE), loads)

\* C25: while nobody is logged in, the groups, the submissions and the
\* notifications of the client are empty, whatever call of loadUserData or
\* delayed reload was under way when the user logged out.
C25_EmptyWhileLoggedOut ==
    user = NoUser => (groups = <<>> /\ submissions = <<>> /\ notifications = <<>>)

\* C26: the submissions of the client never hold two entries with the same
\* id, however the answer of the create call and a refresh interleave.
C26_NoDuplicateSubmissionIds ==
    \A i, j \in 1..Len(submissions) :
        submissions[i].id = submissions[j].id => i = j

(***************************************************************************)
(* The achievements and the user.                                          *)
(***************************************************************************)
\* C28: every achievement shown as earned was earned by the user who is
\* logged in: the submissions, votes and groups of that user satisfy its
\* condition.
C28_EarnedByCurrentUser ==
    user # NoUser =>
        \A i \in 1..Len(achievements) :
            achievements[i].earned
                => ShouldEarn(achievements[i].id, submissions, groups, user)

\* An achievement keeps what it has: its id, earned with its earnedAt, seen.
KeepsEarnedAndSeen(i) ==
    /\ achievements'[i].id = achievements[i].id
    /\ achievements[i].earned =>
           /\ achievements'[i].earned
           /\ achievements'[i].earnedAt = achievements[i].earnedAt
    /\ achievements[i].seen => achievements'[i].seen

\* The step is a call of handleMarkAchievementSeen.
IsMarkSeenStep == lastOp' = "seen" /\ achievements' # achievements

\* C29: an earned achievement stays earned with its earnedAt, a seen one
\* stays seen, whatever the handlers and checkAchievements do later; and
\* handleMarkAchievementSeen sets the seen flag of one achievement and
\* changes nothing else.
C29_AchievementsAreMonotone ==
    [][/\ Len(achievements') = Len(achievements)
       /\ \A i \in 1..Len(achievements) : KeepsEarnedAndSeen(i)
       /\ IsMarkSeenStep =>
              \E i \in 1..Len(achievements) :
                  /\ ~achievements[i].seen
                  /\ achievements' = [achievements EXCEPT ![i].seen = TRUE]]_vars

\* "first-post" was earned on the first day and seen, and the user who earned
\* it has logged out, another user is logged in on a later day.
C29_Witness ==
    /\ now.day > AppNow.day
    /\ user # NoUser
    /\ \E i \in 1..Len(achievements) :
          /\ achievements[i].id = "first-post"
          /\ achievements[i].earned
          /\ achievements[i].seen
          /\ achievements[i].earnedAt = toISOString(AppNow)
    /\ \A k \in 1..Len(submissions) : submissions[k].userId # user

====
